---- MODULE Spec2Model ----
(***************************************************************************)
(* Billing ledger and document engine of billing-dyeing-hub.               *)
(*                                                                         *)
(* The store (Supabase tables invoices, invoice_items, dyeing_bills,       *)
(* dyeing_bill_items, payments, customers.total_credit, company_profile)   *)
(* is shared by browser sessions.  Every handler is an async function: it  *)
(* is modelled one store call (await) per step, with the values it holds   *)
(* between two awaits kept in the session's local record.                  *)
(*                                                                         *)
(* Money is counted in paise (1/100 rupee), the resolution of the          *)
(* DECIMAL(10,2) columns.  Text is a sequence of one-character strings.    *)
(***************************************************************************)
EXTENDS Integers, Sequences, FiniteSets, TLC

\* ------------------------------------------------------------------ bounds
MaxDocs == 2        \* documents inserted in one behaviour, both classes together
MaxPayments == 2    \* payment records inserted in one behaviour
MaxOverlap == 1     \* handlers entered while another session's handler runs
MaxQty == 1         \* largest quantity typed into a line item
MaxItems == 2       \* line items on a form

\* ------------------------------------------------------- program constants
PadWidth == 5       \* padStart(5, "0")
DefaultGstRate == 18 \* useState(18)
DefaultQuantity == 1 \* quantity: 1 of a fresh line item
DefaultGstType == "CGST_SGST"

Sessions == {"s1", "s2"}
Customers == {"c1", "c2"}

\* Prefixes that company_profile may hold: the shipped defaults "INV" and
\* "DYE", and a prefix with a hyphen in it (Settings takes free text).
DefaultInvoicePrefix == <<"I", "N", "V">>
DefaultDyeingPrefix == <<"D", "Y", "E">>
HyphenPrefix == <<"A", "-", "B">>
InvoicePrefixes == {DefaultInvoicePrefix, HyphenPrefix}
DyeingPrefixes == {DefaultDyeingPrefix, HyphenPrefix}

\* Unit rates typed into a line item, in paise.
Rates == {100}
GstRates == {DefaultGstRate}

\* The two GST types and the rates the selects of InvoiceNew offer.
GstTypes == {"CGST_SGST", "IGST"}
GstRateOptions == {5, 12, 18, 28}

\* --------------------------------------------------------------- JS numbers
\* A JavaScript number is either NaN or an integer value.
NaN == [nan |-> TRUE, val |-> 0]
Num(n) == [nan |-> FALSE, val |-> n]

Digits == <<"0", "1", "2", "3", "4", "5", "6", "7", "8", "9">>
IsDigit(ch) == \E i \in 1..10 : Digits[i] = ch
DigitVal(ch) == (CHOOSE i \in 1..10 : Digits[i] = ch) - 1

\* String.prototype.split("-")
RECURSIVE SplitFrom(_, _, _)
SplitFrom(s, i, cur) ==
  IF i > Len(s) THEN <<cur>>
  ELSE IF s[i] = "-" THEN <<cur>> \o SplitFrom(s, i + 1, <<>>)
  ELSE SplitFrom(s, i + 1, Append(cur, s[i]))
Split(s) == SplitFrom(s, 1, <<>>)

\* parseInt(text): the value of the longest prefix of decimal digits, NaN if
\* there is none.
RECURSIVE ParseDigits(_, _, _)
ParseDigits(s, i, acc) ==
  IF i > Len(s) \/ ~IsDigit(s[i]) THEN acc
  ELSE ParseDigits(s, i + 1, acc * 10 + DigitVal(s[i]))
ParseInt(s) ==
  IF Len(s) = 0 \/ ~IsDigit(s[1]) THEN NaN ELSE Num(ParseDigits(s, 1, 0))

\* Number.prototype.toString() of a non-negative integer or NaN.
RECURSIVE NatToString(_)
NatToString(n) ==
  IF n < 10 THEN <<Digits[n + 1]>>
  ELSE Append(NatToString(n \div 10), Digits[(n % 10) + 1])
NumToString(x) == IF x.nan THEN <<"N", "a", "N">> ELSE NatToString(x.val)

\* String.prototype.padStart(width, "0")
RECURSIVE PadStart(_, _)
PadStart(s, width) == IF Len(s) >= width THEN s ELSE PadStart(<<"0">> \o s, width)

\* Mutant: a suffix that is not a number counts as 0.
PlusOneFromZero(x) == IF x.nan THEN Num(1) ELSE Num(x.val + 1)

\* NaN + 1 is NaN.
PlusOne(x) == IF x.nan THEN NaN ELSE Num(x.val + 1)

\* ------------------------------------------------------ document sequencer
\* `${prefix}-00001`
FirstNumber(prefix) == prefix \o <<"-">> \o <<"0", "0", "0", "0", "1">>

\* data[0].invoice_number.split("-")[1]; undefined (parsed as NaN) when the
\* number holds no hyphen.
LastNumberPart(number) ==
  IF Len(Split(number)) >= 2 THEN Split(number)[2] ELSE <<"u">>

\* generateInvoiceNumber / generateBillNumber on the rows the select
\* returned (ordered by created_at descending, limit 1: the last inserted).
NextNumber(prefix, docs) ==
  IF Len(docs) = 0 THEN FirstNumber(prefix)
  ELSE prefix \o <<"-">> \o
       PadStart(NumToString(PlusOne(ParseInt(LastNumberPart(docs[Len(docs)].number)))),
                PadWidth)


\* ------------------------------------------------------------------- text
UpperCaseLetters ==
  <<"A", "B", "C", "D", "E", "F", "G", "H", "I", "J", "K", "L", "M", "N",
    "O", "P", "Q", "R", "S", "T", "U", "V", "W", "X", "Y", "Z">>
LowerCaseLetters ==
  <<"a", "b", "c", "d", "e", "f", "g", "h", "i", "j", "k", "l", "m", "n",
    "o", "p", "q", "r", "s", "t", "u", "v", "w", "x", "y", "z">>
IsUpperCaseLetter(ch) == \E i \in 1..26 : UpperCaseLetters[i] = ch
IsLowerCaseLetter(ch) == \E i \in 1..26 : LowerCaseLetters[i] = ch

\* The letter sharp s, whose upper case is the two letters SS.
SharpS == "sharp s"

\* String.prototype.toUpperCase(), one character at a time: a character
\* may become two.
UpperCaseOf(ch) ==
  IF IsLowerCaseLetter(ch)
  THEN <<UpperCaseLetters[CHOOSE i \in 1..26 : LowerCaseLetters[i] = ch]>>
  ELSE IF ch = SharpS THEN <<"S", "S">>
  ELSE <<ch>>
RECURSIVE ToUpperCase(_)
ToUpperCase(s) ==
  IF Len(s) = 0 THEN <<>> ELSE UpperCaseOf(s[1]) \o ToUpperCase(Tail(s))

\* String.prototype.trim(): white space off both ends.
IsWhiteSpace(ch) == ch \in {" ", "\t", "\n"}
RECURSIVE TrimStart(_)
TrimStart(s) ==
  IF Len(s) > 0 /\ IsWhiteSpace(s[1]) THEN TrimStart(Tail(s)) ELSE s
RECURSIVE TrimEnd(_)
TrimEnd(s) ==
  IF Len(s) > 0 /\ IsWhiteSpace(s[Len(s)])
  THEN TrimEnd(SubSeq(s, 1, Len(s) - 1)) ELSE s
Trim(s) == TrimEnd(TrimStart(s))

\* String.prototype.substring(start, end), positions counted from 0.
Min(a, b) == IF a < b THEN a ELSE b
Substring(s, start, end) == SubSeq(s, Min(start, Len(s)) + 1, Min(end, Len(s)))

\* ---------------------------------------------------------- GSTIN decoder
\* The character classes of GST_REGEX.
IsAlphaNumeric(ch) == IsDigit(ch) \/ IsUpperCaseLetter(ch)
IsEntityChar(ch) == (IsDigit(ch) /\ ch # "0") \/ IsUpperCaseLetter(ch)

\* Mutant: the entity position takes any digit, [0-9A-Z].
GstRegexAnyEntityDigit(s) ==
  /\ Len(s) = 15
  /\ \A i \in 1..2 : IsDigit(s[i])
  /\ \A i \in 3..7 : IsUpperCaseLetter(s[i])
  /\ \A i \in 8..11 : IsDigit(s[i])
  /\ IsUpperCaseLetter(s[12])
  /\ IsAlphaNumeric(s[13])
  /\ s[14] = "Z"
  /\ IsAlphaNumeric(s[15])

\* GST_REGEX.test(s):
\* /^[0-9]{2}[A-Z]{5}[0-9]{4}[A-Z]{1}[1-9A-Z]{1}Z[0-9A-Z]{1}$/
GST_REGEX(s) ==
  /\ Len(s) = 15
  /\ \A i \in 1..2 : IsDigit(s[i])
  /\ \A i \in 3..7 : IsUpperCaseLetter(s[i])
  /\ \A i \in 8..11 : IsDigit(s[i])
  /\ IsUpperCaseLetter(s[12])
  /\ IsEntityChar(s[13])
  /\ s[14] = "Z"
  /\ IsAlphaNumeric(s[15])

\* STATE_CODES of gst-utils.ts.
STATE_CODES ==
  {
    [code |-> <<"0", "1">>, name |-> "Jammu & Kashmir"],
    [code |-> <<"0", "2">>, name |-> "Himachal Pradesh"],
    [code |-> <<"0", "3">>, name |-> "Punjab"],
    [code |-> <<"0", "4">>, name |-> "Chandigarh"],
    [code |-> <<"0", "5">>, name |-> "Uttarakhand"],
    [code |-> <<"0", "6">>, name |-> "Haryana"],
    [code |-> <<"0", "7">>, name |-> "Delhi"],
    [code |-> <<"0", "8">>, name |-> "Rajasthan"],
    [code |-> <<"0", "9">>, name |-> "Uttar Pradesh"],
    [code |-> <<"1", "0">>, name |-> "Bihar"],
    [code |-> <<"1", "1">>, name |-> "Sikkim"],
    [code |-> <<"1", "2">>, name |-> "Arunachal Pradesh"],
    [code |-> <<"1", "3">>, name |-> "Nagaland"],
    [code |-> <<"1", "4">>, name |-> "Manipur"],
    [code |-> <<"1", "5">>, name |-> "Mizoram"],
    [code |-> <<"1", "6">>, name |-> "Tripura"],
    [code |-> <<"1", "7">>, name |-> "Meghalaya"],
    [code |-> <<"1", "8">>, name |-> "Assam"],
    [code |-> <<"1", "9">>, name |-> "West Bengal"],
    [code |-> <<"2", "0">>, name |-> "Jharkhand"],
    [code |-> <<"2", "1">>, name |-> "Odisha"],
    [code |-> <<"2", "2">>, name |-> "Chhattisgarh"],
    [code |-> <<"2", "3">>, name |-> "Madhya Pradesh"],
    [code |-> <<"2", "4">>, name |-> "Gujarat"],
    [code |-> <<"2", "6">>, name |-> "Dadra & Nagar Haveli and Daman & Diu"],
    [code |-> <<"2", "7">>, name |-> "Maharashtra"],
    [code |-> <<"2", "8">>, name |-> "Andhra Pradesh (Old)"],
    [code |-> <<"2", "9">>, name |-> "Karnataka"],
    [code |-> <<"3", "0">>, name |-> "Goa"],
    [code |-> <<"3", "1">>, name |-> "Lakshadweep"],
    [code |-> <<"3", "2">>, name |-> "Kerala"],
    [code |-> <<"3", "3">>, name |-> "Tamil Nadu"],
    [code |-> <<"3", "4">>, name |-> "Puducherry"],
    [code |-> <<"3", "5">>, name |-> "Andaman & Nicobar Islands"],
    [code |-> <<"3", "6">>, name |-> "Telangana"],
    [code |-> <<"3", "7">>, name |-> "Andhra Pradesh"],
    [code |-> <<"3", "8">>, name |-> "Ladakh"],
    [code |-> <<"9", "7">>, name |-> "Other Territory"]
  }

\* STATE_CODES[stateCode]: the name, undefined (here "") for a code the
\* table does not hold.
StateNameOf(codes, stateCode) ==
  IF \E r \in codes : r.code = stateCode
  THEN (CHOOSE r \in codes : r.code = stateCode).name
  ELSE ""

\* A GSTValidationResult: the fields a result does not set are empty.
InvalidGst(error) ==
  [isValid |-> FALSE, error |-> error, stateCode |-> <<>>, stateName |-> "",
   pan |-> <<>>, entityCode |-> <<>>]

\* validateGSTNumber
validateGSTNumber(gstin) ==
  IF Len(gstin) = 0 THEN InvalidGst("GST number is required")
  ELSE LET upperGstin == Trim(ToUpperCase(gstin)) IN
    IF Len(upperGstin) # 15
    THEN InvalidGst("GST number must be exactly 15 characters")
    ELSE IF ~GST_REGEX(upperGstin) THEN InvalidGst("Invalid GST number format")
    ELSE LET stateCode == Substring(upperGstin, 0, 2)
             stateName == StateNameOf(STATE_CODES, stateCode) IN
      IF stateName = "" THEN InvalidGst("Invalid state code in GST number")
      ELSE [isValid |-> TRUE, error |-> "", stateCode |-> stateCode,
            stateName |-> stateName, pan |-> Substring(upperGstin, 2, 12),
            entityCode |-> Substring(upperGstin, 12, 13)]

\* replace(/[^A-Z0-9]/g, "")
RECURSIVE OnlyAlphaNumeric(_)
OnlyAlphaNumeric(s) ==
  IF Len(s) = 0 THEN <<>>
  ELSE (IF IsAlphaNumeric(s[1]) THEN <<s[1]>> ELSE <<>>) \o OnlyAlphaNumeric(Tail(s))

\* formatGSTNumber
formatGSTNumber(gstin) == Substring(OnlyAlphaNumeric(ToUpperCase(gstin)), 0, 15)


\* ------------------------------------------------- verify-gst edge function
\* GST_REGEX of the edge function.
VerifyGstRegex(s) ==
  /\ Len(s) = 15
  /\ \A i \in 1..2 : IsDigit(s[i])
  /\ \A i \in 3..7 : IsUpperCaseLetter(s[i])
  /\ \A i \in 8..11 : IsDigit(s[i])
  /\ IsUpperCaseLetter(s[12])
  /\ IsEntityChar(s[13])
  /\ s[14] = "Z"
  /\ IsAlphaNumeric(s[15])

\* STATE_CODES of the edge function.
VerifyStateCodes ==
  {
    [code |-> <<"0", "1">>, name |-> "Jammu & Kashmir"],
    [code |-> <<"0", "2">>, name |-> "Himachal Pradesh"],
    [code |-> <<"0", "3">>, name |-> "Punjab"],
    [code |-> <<"0", "4">>, name |-> "Chandigarh"],
    [code |-> <<"0", "5">>, name |-> "Uttarakhand"],
    [code |-> <<"0", "6">>, name |-> "Haryana"],
    [code |-> <<"0", "7">>, name |-> "Delhi"],
    [code |-> <<"0", "8">>, name |-> "Rajasthan"],
    [code |-> <<"0", "9">>, name |-> "Uttar Pradesh"],
    [code |-> <<"1", "0">>, name |-> "Bihar"],
    [code |-> <<"1", "1">>, name |-> "Sikkim"],
    [code |-> <<"1", "2">>, name |-> "Arunachal Pradesh"],
    [code |-> <<"1", "3">>, name |-> "Nagaland"],
    [code |-> <<"1", "4">>, name |-> "Manipur"],
    [code |-> <<"1", "5">>, name |-> "Mizoram"],
    [code |-> <<"1", "6">>, name |-> "Tripura"],
    [code |-> <<"1", "7">>, name |-> "Meghalaya"],
    [code |-> <<"1", "8">>, name |-> "Assam"],
    [code |-> <<"1", "9">>, name |-> "West Bengal"],
    [code |-> <<"2", "0">>, name |-> "Jharkhand"],
    [code |-> <<"2", "1">>, name |-> "Odisha"],
    [code |-> <<"2", "2">>, name |-> "Chhattisgarh"],
    [code |-> <<"2", "3">>, name |-> "Madhya Pradesh"],
    [code |-> <<"2", "4">>, name |-> "Gujarat"],
    [code |-> <<"2", "6">>, name |-> "Dadra & Nagar Haveli and Daman & Diu"],
    [code |-> <<"2", "7">>, name |-> "Maharashtra"],
    [code |-> <<"2", "8">>, name |-> "Andhra Pradesh (Old)"],
    [code |-> <<"2", "9">>, name |-> "Karnataka"],
    [code |-> <<"3", "0">>, name |-> "Goa"],
    [code |-> <<"3", "1">>, name |-> "Lakshadweep"],
    [code |-> <<"3", "2">>, name |-> "Kerala"],
    [code |-> <<"3", "3">>, name |-> "Tamil Nadu"],
    [code |-> <<"3", "4">>, name |-> "Puducherry"],
    [code |-> <<"3", "5">>, name |-> "Andaman & Nicobar Islands"],
    [code |-> <<"3", "6">>, name |-> "Telangana"],
    [code |-> <<"3", "7">>, name |-> "Andhra Pradesh"],
    [code |-> <<"3", "8">>, name |-> "Ladakh"],
    [code |-> <<"9", "7">>, name |-> "Other Territory"]
  }

\* A rejection: the status and the body { success: false, error }.
Rejected(status, error) ==
  [status |-> status, success |-> FALSE, error |-> error, gstin |-> <<>>,
   stateCode |-> <<>>, state |-> "", pan |-> <<>>]

\* Mutant: the length is tested before the text is trimmed.
serveUntrimmedLength(gstin) ==
  IF Len(gstin) = 0 THEN Rejected(400, "GSTIN is required")
  ELSE LET upperGstin == Trim(ToUpperCase(gstin)) IN
    IF Len(ToUpperCase(gstin)) # 15
    THEN Rejected(400, "GST number must be exactly 15 characters")
    ELSE IF ~VerifyGstRegex(upperGstin)
    THEN Rejected(400, "Invalid GST number format")
    ELSE LET stateCode == Substring(upperGstin, 0, 2)
             stateName == StateNameOf(VerifyStateCodes, stateCode) IN
      IF stateName = "" THEN Rejected(400, "Invalid state code in GST number")
      ELSE [status |-> 200, success |-> TRUE, error |-> "", gstin |-> upperGstin,
            stateCode |-> stateCode, state |-> stateName,
            pan |-> Substring(upperGstin, 2, 12)]

\* serve, for a request whose body holds a string gstin: the answer's status,
\* success and error, of its data the fields gstin, stateCode and state (the
\* same with and without GST_API_KEY), and the constant pan the mock data is
\* made from.
serve(gstin) ==
  IF Len(gstin) = 0 THEN Rejected(400, "GSTIN is required")
  ELSE LET upperGstin == Trim(ToUpperCase(gstin)) IN
    IF Len(upperGstin) # 15
    THEN Rejected(400, "GST number must be exactly 15 characters")
    ELSE IF ~VerifyGstRegex(upperGstin)
    THEN Rejected(400, "Invalid GST number format")
    ELSE LET stateCode == Substring(upperGstin, 0, 2)
             stateName == StateNameOf(VerifyStateCodes, stateCode) IN
      IF stateName = "" THEN Rejected(400, "Invalid state code in GST number")
      ELSE [status |-> 200, success |-> TRUE, error |-> "", gstin |-> upperGstin,
            stateCode |-> stateCode, state |-> stateName,
            pan |-> Substring(upperGstin, 2, 12)]


\* ------------------------------------------------------------------- state
VARIABLES
  invoices,          \* table invoices, in created_at order
  invoice_items,     \* per invoice with stored line items, their amounts
  dyeing_bills,      \* table dyeing_bills, in created_at order
  dyeing_bill_items, \* per dyeing bill with stored line items, their amounts
  payments,          \* table payments, in created_at order
  total_credit,      \* customers.total_credit
  invoice_prefix,    \* company_profile.invoice_prefix
  dyeing_prefix,     \* company_profile.dyeing_prefix
  nextId,            \* ids handed out so far (gen_random_uuid, never repeated)
  customers,         \* ids of the rows of table customers
  form,              \* the document form on screen: page, line items, GST selects
  local,             \* per session: the running handler's position and locals
  decoder,           \* a GSTIN handed to the decoder and to verify-gst, and the answers
  customerForm,      \* the customer dialog: formData and the state of its GSTInput
  inflight,          \* the verify-gst calls that have not returned
  created_by,        \* history: the user that inserted each document (column created_by)
  overlaps,          \* handlers entered so far while another handler ran
  issued,            \* history: the numbers of the documents inserted, per class
  last               \* history: the handler that returned last, and how

vars == <<invoices, invoice_items, dyeing_bills, dyeing_bill_items, payments,
          total_credit, invoice_prefix, dyeing_prefix, nextId, customers, form,
          local, decoder, customerForm, inflight, created_by, overlaps, issued,
          last>>

\* What the ledger handlers leave alone: the GSTIN decoder and the customer
\* dialog.
gstVars == <<decoder, customerForm, inflight>>

store == <<invoices, invoice_items, dyeing_bills, dyeing_bill_items, payments,
           total_credit, invoice_prefix, dyeing_prefix, nextId, customers>>

Classes == {"invoice", "dyeing_bill"}

Docs(cls) == IF cls = "invoice" THEN invoices ELSE dyeing_bills
Items(cls) == IF cls = "invoice" THEN invoice_items ELSE dyeing_bill_items
Prefix(cls) == IF cls = "invoice" THEN invoice_prefix ELSE dyeing_prefix

\* SQL NULL, and a column that holds a value.
Null == [null |-> TRUE, val |-> 0]
Val(x) == [null |-> FALSE, val |-> x]

\* The tax fields of a payload that has none (a dyeing bill).
NoTax ==
  [gst_type |-> "none", cgst_rate |-> Null, cgst_amount |-> Null,
   sgst_rate |-> Null, sgst_amount |-> Null, igst_rate |-> Null,
   igst_amount |-> Null]

\* A session with no handler running and no modal open.  loading is the
\* in-progress flag of the page (loading of InvoiceNew, DyeingNew and
\* PaymentModal, deleting of Invoices and Dyeing).
IdleLocal ==
  [pc |-> "idle", op |-> "none", cust |-> "none", total |-> 0, number |-> <<>>,
   doc |-> 0, rdInv |-> <<>>, rdBill |-> <<>>, totalOutstanding |-> 0,
   amount |-> 0, credit |-> 0, subtotal |-> 0, tax |-> NoTax, lines |-> <<>>,
   loading |-> FALSE]

\* No document form is on screen.
NoForm ==
  [page |-> "none", items |-> <<>>, gstType |-> "CGST_SGST",
   gstRate |-> DefaultGstRate]

NoLast == [op |-> "none", cust |-> "none", outcome |-> "none", amount |-> 0]

\* useState<GSTValidationResult | null>(null): no result yet.
NoValidation == InvalidGst("")

\* No GSTIN has been handed to the decoder.
NoDecoder ==
  [gstin |-> <<>>, validated |-> FALSE, validation |-> NoValidation,
   served |-> FALSE, response |-> Rejected(0, "")]

\* The state of a GSTInput that has just been mounted.
MountedInput ==
  [validation |-> NoValidation, isTouched |-> FALSE, isVerifying |-> FALSE,
   verified |-> FALSE, verificationError |-> "", lastVerifiedGst |-> <<>>]

\* The customer page as it loads: the dialog closed, formData empty.  mounts
\* and calls count the GSTInputs mounted and the verify-gst calls started;
\* detected holds the onStateDetected calls of the last event.
ClosedCustomerForm ==
  [open |-> FALSE, gstin |-> <<>>, state |-> "", mounts |-> 0, calls |-> 0,
   input |-> MountedInput, detected |-> <<>>]

\* The ledger as it is installed, no handler running.
InitLedger ==
  /\ invoices = <<>>
  /\ invoice_items = {}
  /\ dyeing_bills = <<>>
  /\ dyeing_bill_items = {}
  /\ payments = <<>>
  /\ total_credit = [c \in Customers |-> 0]
  /\ invoice_prefix \in InvoicePrefixes
  /\ dyeing_prefix \in DyeingPrefixes
  /\ nextId = 1
  /\ customers = Customers
  /\ form = NoForm
  /\ local = [s \in Sessions |-> IdleLocal]
  /\ overlaps = 0
  /\ issued = [cls \in Classes |-> <<>>]
  /\ last = NoLast
  /\ created_by = <<>>

Init ==
  /\ InitLedger
  /\ decoder = NoDecoder
  /\ customerForm = ClosedCustomerForm
  /\ inflight = {}

\* ------------------------------------------------------------ pure helpers
RECURSIVE SumSeq(_)
SumSeq(s) == IF Len(s) = 0 THEN 0 ELSE s[1] + SumSeq(Tail(s))

\* .select("total_amount, paid_amount").eq("customer_id", c)
RECURSIVE RowsOf(_, _)
RowsOf(docs, c) ==
  IF Len(docs) = 0 THEN <<>>
  ELSE (IF docs[1].customer_id = c
        THEN <<[total_amount |-> docs[1].total_amount,
                paid_amount |-> docs[1].paid_amount]>>
        ELSE <<>>) \o RowsOf(Tail(docs), c)

\* A value written to a DECIMAL(10,2) column, given in 1/100 paise: rounded
\* half up to whole paise.
RoundToPaise(x100) == (x100 + 50) \div 100

\* InvoiceNew: calculateSubtotal, calculateGST, calculateTotal on a form with
\* one line item (amount = quantity * rate), the total as the column keeps it.
LineAmount(quantity, rate) == quantity * rate
CalculateSubtotal(amounts) == SumSeq(amounts)
CalculateGST100(amounts, gstRate) == CalculateSubtotal(amounts) * gstRate
CalculateTotal(amounts, gstRate) ==
  RoundToPaise(CalculateSubtotal(amounts) * 100 + CalculateGST100(amounts, gstRate))

\* DyeingNew: calculateTotal
DyeingCalculateTotal(amounts) == SumSeq(amounts)

\* ------------------------------------------------------------ form items
\* A line item of a form: quantity (a whole number here), unit rate in paise,
\* amount in paise.  { quantity: 1, rate: 0, amount: 0 }
NewItem == [quantity |-> DefaultQuantity, rate |-> 0, amount |-> 0]

Amounts(items) == [i \in 1..Len(items) |-> items[i].amount]

\* items.filter(item => item.id !== id), for the item at position i
WithoutItem(items, i) ==
  [j \in 1..(Len(items) - 1) |-> IF j < i THEN items[j] ELSE items[j + 1]]

\* InvoiceNew: addItem, removeItem, updateItem
AddItem(items) == Append(items, NewItem)
RemoveItem(items, i) == IF Len(items) > 1 THEN WithoutItem(items, i) ELSE items
UpdateItem(items, i, field, value) ==
  [items EXCEPT ![i] =
     LET updated == [@ EXCEPT ![field] = value] IN
     IF field = "quantity" \/ field = "rate"
     THEN [updated EXCEPT !.amount = LineAmount(updated.quantity, updated.rate)]
     ELSE updated]

\* Mutant: a change of the rate leaves the amount as it was.
DyeingUpdateItemKeepsAmount(items, i, field, value) ==
  [items EXCEPT ![i] =
     LET updated == [@ EXCEPT ![field] = value] IN
     IF field = "quantity"
     THEN [updated EXCEPT !.amount = LineAmount(updated.quantity, updated.rate)]
     ELSE updated]

\* DyeingNew: addItem, removeItem, updateItem (a second copy)
DyeingAddItem(items) == Append(items, NewItem)
DyeingRemoveItem(items, i) == IF Len(items) > 1 THEN WithoutItem(items, i) ELSE items
DyeingUpdateItem(items, i, field, value) ==
  [items EXCEPT ![i] =
     LET updated == [@ EXCEPT ![field] = value] IN
     IF field = "quantity" \/ field = "rate"
     THEN [updated EXCEPT !.amount = LineAmount(updated.quantity, updated.rate)]
     ELSE updated]

\* The one line item of a form on which a quantity and a rate were typed.
TypedItems(quantity, rate) ==
  UpdateItem(UpdateItem(<<NewItem>>, 1, "quantity", quantity), 1, "rate", rate)
DyeingTypedItems(quantity, rate) ==
  DyeingUpdateItem(DyeingUpdateItem(<<NewItem>>, 1, "quantity", quantity),
                   1, "rate", rate)

\* ------------------------------------------------------------ tax fields
\* Tax amounts of the payload are kept in 1/200 paise, so that gstAmount / 2
\* is exact; tax rates in 1/100 percent (DECIMAL(5,2)).
\* gstAmount = calculateGST()
GstAmount200(amounts, gstRate) == 2 * CalculateGST100(amounts, gstRate)

\* Mutant: each half rounded to whole paise before it is used.
HalfGstRoundedToPaise(gstAmount200) == 200 * ((gstAmount200 \div 2 + 100) \div 200)

\* gstAmount / 2
HalfGstAmount200(gstAmount200) == gstAmount200 \div 2

\* The conditional spread of invoiceData.
TaxFields(gstType, gstRate, gstAmount200) ==
  IF gstType = "CGST_SGST"
  THEN [gst_type |-> gstType,
        cgst_rate |-> Val((gstRate * 100) \div 2),
        cgst_amount |-> Val(HalfGstAmount200(gstAmount200)),
        sgst_rate |-> Val((gstRate * 100) \div 2),
        sgst_amount |-> Val(HalfGstAmount200(gstAmount200)),
        igst_rate |-> Null,
        igst_amount |-> Null]
  ELSE [gst_type |-> gstType,
        igst_rate |-> Val(gstRate * 100),
        igst_amount |-> Val(gstAmount200),
        cgst_rate |-> Null,
        cgst_amount |-> Null,
        sgst_rate |-> Null,
        sgst_amount |-> Null]

\* Mutant: a NULL amount is replaced by the column default 0.
StoredAmountOrDefault(x) == IF x.null THEN Val(0) ELSE Val((x.val + 100) \div 200)

\* A tax amount of the payload as its DECIMAL(10,2) column keeps it, in
\* paise: rounded half up; NULL stays NULL.
StoredAmount(x) == IF x.null THEN Null ELSE Val((x.val + 100) \div 200)

\* updateCustomerCredit of InvoiceNew: billed and paid summed apart.
Billed(rows) == SumSeq([i \in 1..Len(rows) |-> rows[i].total_amount])
Paid(rows) == SumSeq([i \in 1..Len(rows) |-> rows[i].paid_amount])
InvoicePendingAmount(invs, bills) ==
  (Billed(invs) + Billed(bills)) - (Paid(invs) + Paid(bills))

\* updateCustomerCredit of DyeingNew: the same computation, a second copy.
DyeingPendingAmount(invs, bills) ==
  (Billed(invs) + Billed(bills)) - (Paid(invs) + Paid(bills))

\* handleDeleteConfirm of Invoices and of Dyeing: total - paid summed per row.
Unpaid(rows) ==
  SumSeq([i \in 1..Len(rows) |-> rows[i].total_amount - rows[i].paid_amount])
\* Mutant: the deletion forgets the dyeing bills.
InvoiceDeleteCreditInvoicesOnly(invs, bills) == Unpaid(invs)
InvoiceDeleteCredit(invs, bills) == Unpaid(invs) + Unpaid(bills)
DyeingDeleteCredit(invs, bills) == Unpaid(invs) + Unpaid(bills)

\* Mutant: the payment is not subtracted.
NewCreditKeepsBalance(credit, paymentAmount) == IF credit > 0 THEN credit ELSE 0

\* PaymentModal.handleSubmit: Math.max(0, (customer?.total_credit || 0) - paymentAmount)
NewCredit(credit, paymentAmount) ==
  IF credit - paymentAmount > 0 THEN credit - paymentAmount ELSE 0

\* Mutant: only an empty amount is refused.
AmountInvalidZeroOnly(paymentAmount) == paymentAmount = 0
\* Mutant: the whole balance counts as too much.
ReachesOutstanding(paymentAmount, totalOutstanding) == paymentAmount >= totalOutstanding

\* PaymentModal.handleSubmit: the two early returns.
AmountInvalid(paymentAmount) == paymentAmount = 0 \/ paymentAmount <= 0
ExceedsOutstanding(paymentAmount, totalOutstanding) == paymentAmount > totalOutstanding

\* The value the handler that is recomputing writes to customers.total_credit.
CreditToWrite(op, invs, bills) ==
  CASE op = "create_invoice" -> InvoicePendingAmount(invs, bills)
    [] op = "create_dyeing_bill" -> DyeingPendingAmount(invs, bills)
    [] op = "delete_invoice" -> InvoiceDeleteCredit(invs, bills)
    [] op = "delete_dyeing_bill" -> DyeingDeleteCredit(invs, bills)

ClassOf(op) ==
  IF op \in {"create_invoice", "delete_invoice"} THEN "invoice" ELSE "dyeing_bill"

AllIdle == \A s \in Sessions : local[s].pc = "idle"

\* A handler may start in session p: p is idle and so is every other
\* session, unless operations may overlap.
MayStart(p, overlap) ==
  /\ local[p].pc = "idle"
  /\ AllIdle \/ (overlap /\ overlaps < MaxOverlap)
  /\ overlaps' = IF AllIdle THEN overlaps ELSE overlaps + 1

\* Mutant: the in-progress flag is left as it is.
ReturnKeepsLoading(p, op, c, outcome) ==
  /\ local' = [local EXCEPT ![p] = [IdleLocal EXCEPT !.loading = local[p].loading]]
  /\ last' = [op |-> op, cust |-> c, outcome |-> outcome, amount |-> local[p].amount]
  /\ form' = IF outcome = "success" THEN NoForm ELSE form

\* A handler returns.  After a success the page is left (navigate, the modal
\* closed); after a failure or a rejection the form stays as it is.  The
\* finally block resets the in-progress flag.
Return(p, op, c, outcome) ==
  /\ local' = [local EXCEPT ![p] = IdleLocal]
  /\ last' = [op |-> op, cust |-> c, outcome |-> outcome, amount |-> local[p].amount]
  /\ form' = IF outcome = "success" THEN NoForm ELSE form


SetLocal(p, rec) == local' = [local EXCEPT ![p] = rec]

SetDocs(cls, docs, items) ==
  IF cls = "invoice"
  THEN /\ invoices' = docs
       /\ invoice_items' = items
       /\ UNCHANGED <<dyeing_bills, dyeing_bill_items>>
  ELSE /\ dyeing_bills' = docs
       /\ dyeing_bill_items' = items
       /\ UNCHANGED <<invoices, invoice_items>>

\* The inputs a user may type.
CustomerIds == Customers \cup {""}
Quantities == 1..MaxQty

\* ---------------------------------------------------------- create invoice
\* InvoiceNew.handleSubmit up to its first store call: the early returns on
\* an empty customer and on a line item without name or HSN code, the totals
\* of the form.  The session is signed in (getUser returns a user).
InvoiceHandleSubmit(p, customerId, detailsFilled, items, gstType, gstRate, overlap) ==
  /\ MayStart(p, overlap)
  /\ nextId <= MaxDocs
  /\ customerId \in customers \cup {""}
  /\ IF customerId = "" \/ ~detailsFilled
     THEN /\ Return(p, "create_invoice", "none", "rejected")
          /\ UNCHANGED <<store, issued>>
     ELSE /\ SetLocal(p, [IdleLocal EXCEPT
                 !.pc = "gen_number", !.op = "create_invoice", !.cust = customerId,
                 !.loading = TRUE,
                 !.lines = Amounts(items),
                 !.subtotal = CalculateSubtotal(Amounts(items)),
                 !.tax = TaxFields(gstType, gstRate,
                                   GstAmount200(Amounts(items), gstRate)),
                 !.total = CalculateTotal(Amounts(items), gstRate)])
          /\ UNCHANGED <<store, form, issued, last>>

\* The submit of a form with one line item, the GST type left as it was.
InvoiceSubmit(p, customerId, detailsFilled, quantity, rate, gstRate, overlap) ==
  InvoiceHandleSubmit(p, customerId, detailsFilled, TypedItems(quantity, rate),
                      DefaultGstType, gstRate, overlap)

\* DyeingNew.handleSubmit up to its first store call.
DyeingHandleSubmit(p, customerId, detailsFilled, items, overlap) ==
  /\ MayStart(p, overlap)
  /\ nextId <= MaxDocs
  /\ customerId \in customers \cup {""}
  /\ IF customerId = "" \/ ~detailsFilled
     THEN /\ Return(p, "create_dyeing_bill", "none", "rejected")
          /\ UNCHANGED <<store, issued>>
     ELSE /\ SetLocal(p, [IdleLocal EXCEPT
                 !.pc = "gen_number", !.op = "create_dyeing_bill", !.cust = customerId,
                 !.loading = TRUE,
                 !.lines = Amounts(items),
                 !.total = DyeingCalculateTotal(Amounts(items))])
          /\ UNCHANGED <<store, form, issued, last>>

\* The submit of a form with one line item.
DyeingSubmit(p, customerId, detailsFilled, quantity, rate, overlap) ==
  DyeingHandleSubmit(p, customerId, detailsFilled, DyeingTypedItems(quantity, rate),
                     overlap)

\* Mutant: one table of numbers for both classes.
LastRowsOfBoth(cls) == invoices \o dyeing_bills

\* .from("invoices") / .from("dyeing_bills"): the table the sequencer of a
\* class reads.
LastRows(cls) == Docs(cls)

\* generateInvoiceNumber / generateBillNumber: the select of the last row.
GenerateNumber(p) ==
  /\ local[p].pc = "gen_number"
  /\ SetLocal(p, [local[p] EXCEPT
        !.pc = "insert_doc",
        !.number = NextNumber(Prefix(ClassOf(local[p].op)),
                              LastRows(ClassOf(local[p].op)))])
  /\ UNCHANGED <<store, form, issued, last>>

\* The row the insert adds: the payload, each amount as its DECIMAL(10,2)
\* column keeps it, paid_amount at its default.
NewRow(cls, id, l) ==
  IF cls = "invoice"
  THEN [id |-> id, number |-> l.number, customer_id |-> l.cust,
        subtotal |-> l.subtotal, gst_type |-> l.tax.gst_type,
        cgst_rate |-> l.tax.cgst_rate,
        cgst_amount |-> StoredAmount(l.tax.cgst_amount),
        sgst_rate |-> l.tax.sgst_rate,
        sgst_amount |-> StoredAmount(l.tax.sgst_amount),
        igst_rate |-> l.tax.igst_rate,
        igst_amount |-> StoredAmount(l.tax.igst_amount),
        total_amount |-> l.total, paid_amount |-> 0]
  ELSE [id |-> id, number |-> l.number, customer_id |-> l.cust,
        total_amount |-> l.total, paid_amount |-> 0]

\* Mutant: the number column carries no unique constraint.
NumberNeverTaken(docs, number) == FALSE

NumberTaken(docs, number) == \E i \in 1..Len(docs) : docs[i].number = number

\* The insert of the header row.  invoice_number / bill_number is UNIQUE: a
\* duplicate makes the insert fail, the handler throws and reports failure.
InsertDoc(p) ==
  /\ local[p].pc = "insert_doc"
  /\ LET cls == ClassOf(local[p].op) IN
     IF NumberTaken(Docs(cls), local[p].number)
     THEN /\ Return(p, local[p].op, local[p].cust, "failed")
          /\ UNCHANGED <<store, issued>>
     ELSE /\ SetDocs(cls, Append(Docs(cls), NewRow(cls, nextId, local[p])),
                     Items(cls))
          /\ nextId' = nextId + 1
          /\ issued' = [issued EXCEPT ![cls] = Append(@, local[p].number)]
          /\ SetLocal(p, [local[p] EXCEPT !.pc = "insert_items", !.doc = nextId])
          /\ UNCHANGED <<payments, total_credit, invoice_prefix, dyeing_prefix,
                         customers, form, last>>

\* The insert of the line items.
InsertItems(p) ==
  /\ local[p].pc = "insert_items"
  /\ LET cls == ClassOf(local[p].op) IN
     SetDocs(cls, Docs(cls),
             Items(cls) \cup {[doc |-> local[p].doc, amounts |-> local[p].lines]})
  /\ SetLocal(p, [local[p] EXCEPT !.pc = "rd_inv"])
  /\ UNCHANGED <<payments, total_credit, invoice_prefix, dyeing_prefix, nextId,
                 customers, form, issued, last>>

\* --------------------------------------------------- ledger recomputation
\* The select of the customer's invoices.
ReadInvoices(p) ==
  /\ local[p].pc = "rd_inv"
  /\ SetLocal(p, [local[p] EXCEPT !.pc = "rd_bill",
                                  !.rdInv = RowsOf(invoices, local[p].cust)])
  /\ UNCHANGED <<store, form, issued, last>>

\* The select of the customer's dyeing bills.
ReadDyeingBills(p) ==
  /\ local[p].pc = "rd_bill"
  /\ SetLocal(p, [local[p] EXCEPT !.pc = "write_credit",
                                  !.rdBill = RowsOf(dyeing_bills, local[p].cust)])
  /\ UNCHANGED <<store, form, issued, last>>

\* Mutant: the computed amount is added to the stored balance.
WriteCreditAdds(p) ==
  /\ local[p].pc = "write_credit"
  /\ total_credit' = [total_credit EXCEPT ![local[p].cust] =
                        @ + CreditToWrite(local[p].op, local[p].rdInv, local[p].rdBill)]
  /\ Return(p, local[p].op, local[p].cust, "success")
  /\ UNCHANGED <<invoices, invoice_items, dyeing_bills, dyeing_bill_items, payments,
                 invoice_prefix, dyeing_prefix, nextId, customers, issued>>

\* The update of customers.total_credit, then the success toast.
WriteCredit(p) ==
  /\ local[p].pc = "write_credit"
  /\ total_credit' = [total_credit EXCEPT ![local[p].cust] =
                        CreditToWrite(local[p].op, local[p].rdInv, local[p].rdBill)]
  /\ Return(p, local[p].op, local[p].cust, "success")
  /\ UNCHANGED <<invoices, invoice_items, dyeing_bills, dyeing_bill_items, payments,
                 invoice_prefix, dyeing_prefix, nextId, customers, issued>>

\* ------------------------------------------------------- delete a document
\* handleDeleteConfirm of Invoices / Dyeing, entered with the row the user
\* picked from the list.
DeleteConfirm(p, cls, i, overlap) ==
  /\ MayStart(p, overlap)
  /\ i \in 1..Len(Docs(cls))
  /\ SetLocal(p, [IdleLocal EXCEPT
        !.pc = "del_items", !.loading = TRUE,
        !.op = IF cls = "invoice" THEN "delete_invoice" ELSE "delete_dyeing_bill",
        !.cust = Docs(cls)[i].customer_id, !.doc = Docs(cls)[i].id])
  /\ UNCHANGED <<store, form, issued, last>>

\* The delete of the line items.
DeleteItems(p) ==
  /\ local[p].pc = "del_items"
  /\ LET cls == ClassOf(local[p].op) IN
     SetDocs(cls, Docs(cls), {r \in Items(cls) : r.doc # local[p].doc})
  /\ SetLocal(p, [local[p] EXCEPT !.pc = "del_doc"])
  /\ UNCHANGED <<payments, total_credit, invoice_prefix, dyeing_prefix, nextId,
                 customers, form, issued, last>>

RECURSIVE WithoutId(_, _)
WithoutId(docs, id) ==
  IF Len(docs) = 0 THEN <<>>
  ELSE (IF docs[1].id = id THEN <<>> ELSE <<docs[1]>>) \o WithoutId(Tail(docs), id)

\* payments.invoice_id REFERENCES invoices(id) ON DELETE CASCADE: the payments
\* left when the invoice id is deleted.
RECURSIVE NotOfInvoice(_, _)
NotOfInvoice(pays, id) ==
  IF Len(pays) = 0 THEN <<>>
  ELSE (IF pays[1].invoice_id = Val(id) THEN <<>> ELSE <<pays[1]>>)
       \o NotOfInvoice(Tail(pays), id)

\* The delete of the header row.  The rows that reference an invoice go with
\* it.
DeleteDoc(p) ==
  /\ local[p].pc = "del_doc"
  /\ LET cls == ClassOf(local[p].op) IN
     /\ SetDocs(cls, WithoutId(Docs(cls), local[p].doc), Items(cls))
     /\ payments' = IF cls = "invoice"
                    THEN NotOfInvoice(payments, local[p].doc) ELSE payments
  /\ SetLocal(p, [local[p] EXCEPT !.pc = "rd_inv"])
  /\ UNCHANGED <<total_credit, invoice_prefix, dyeing_prefix, nextId,
                 customers, form, issued, last>>

\* ----------------------------------------------------------------- payment
\* Customers: the Record Payment button, shown for a customer whose listed
\* total_credit is positive; the modal gets the listed value as
\* totalOutstanding.  The list is the one fetchCustomers read on page load
\* or after the last payment: that read is the first store call of the
\* payment operation, so a balance that goes stale afterwards is an overlap.
OpenPaymentModal(p, c, overlap) ==
  /\ MayStart(p, overlap)
  /\ c \in customers
  /\ Len(payments) < MaxPayments
  /\ total_credit[c] > 0
  /\ SetLocal(p, [IdleLocal EXCEPT !.pc = "pay_form", !.op = "payment", !.cust = c,
                                   !.totalOutstanding = total_credit[c]])
  /\ UNCHANGED <<store, form, issued, last>>

\* The amounts a user may type: a negative one, none, a part of the
\* outstanding balance, all of it, more than it.
PaymentAmounts(totalOutstanding) ==
  {-100, 0, 50, totalOutstanding, totalOutstanding + 1}

\* PaymentModal.handleSubmit up to its first store call, with the amount
\* typed: the two early returns leave the modal open.
PaymentSubmit(p, paymentAmount) ==
  /\ local[p].pc = "pay_form"
  /\ UNCHANGED <<store, form, issued>>
  /\ IF AmountInvalid(paymentAmount)
     THEN /\ last' = [op |-> "payment", cust |-> local[p].cust,
                      outcome |-> "invalid_amount", amount |-> paymentAmount]
          /\ UNCHANGED local
     ELSE IF ExceedsOutstanding(paymentAmount, local[p].totalOutstanding)
     THEN /\ last' = [op |-> "payment", cust |-> local[p].cust,
                      outcome |-> "overpayment", amount |-> paymentAmount]
          /\ UNCHANGED local
     ELSE /\ SetLocal(p, [local[p] EXCEPT !.pc = "pay_insert", !.loading = TRUE,
                                          !.amount = paymentAmount])
          /\ UNCHANGED last

\* onOpenChange(false) by the user.
ClosePaymentModal(p) ==
  /\ local[p].pc = "pay_form"
  /\ SetLocal(p, IdleLocal)
  /\ UNCHANGED <<store, form, issued, last>>

\* Mutant: the payment is recorded against the latest invoice.
PaymentRowOnInvoice(l) ==
  [customer_id |-> l.cust, amount |-> l.amount,
   invoice_id |-> IF Len(invoices) > 0
                  THEN Val(invoices[Len(invoices)].id) ELSE Null]

\* The row the insert adds: invoice_id is not in the payload and stays NULL.
PaymentRow(l) ==
  [customer_id |-> l.cust, amount |-> l.amount, invoice_id |-> Null]

\* The insert of the payment record.
InsertPayment(p) ==
  /\ local[p].pc = "pay_insert"
  /\ payments' = Append(payments, PaymentRow(local[p]))
  /\ SetLocal(p, [local[p] EXCEPT !.pc = "pay_read"])
  /\ UNCHANGED <<invoices, invoice_items, dyeing_bills, dyeing_bill_items,
                 total_credit, invoice_prefix, dyeing_prefix, nextId, customers,
                 form, issued, last>>

\* The select of customers.total_credit.
ReadCustomerCredit(p) ==
  /\ local[p].pc = "pay_read"
  /\ SetLocal(p, [local[p] EXCEPT !.pc = "pay_write",
                                  !.credit = total_credit[local[p].cust]])
  /\ UNCHANGED <<store, form, issued, last>>

\* The update of customers.total_credit, the success toast, the modal closed.
WritePaymentCredit(p) ==
  /\ local[p].pc = "pay_write"
  /\ total_credit' = [total_credit EXCEPT ![local[p].cust] =
                        NewCredit(local[p].credit, local[p].amount)]
  /\ Return(p, "payment", local[p].cust, "success")
  /\ UNCHANGED <<invoices, invoice_items, dyeing_bills, dyeing_bill_items, payments,
                 invoice_prefix, dyeing_prefix, nextId, customers, issued>>

\* ------------------------------------------------------------ document forms
\* The values the number inputs of a line item may hold (min="0"), rates in
\* paise.
FormQuantities == 0..MaxQty
FormRates == {0, 106}

\* InvoiceNew / DyeingNew mounted: the form in its initial state.
OpenForm(page) ==
  /\ AllIdle
  /\ nextId <= MaxDocs
  /\ form' = [page |-> page, items |-> <<NewItem>>, gstType |-> DefaultGstType,
              gstRate |-> DefaultGstRate]
  /\ UNCHANGED <<store, local, overlaps, issued, last>>

\* The Add Item button.
FormAddItem ==
  /\ AllIdle
  /\ form.page # "none"
  /\ Len(form.items) < MaxItems
  /\ form' = [form EXCEPT !.items = IF form.page = "invoice_new"
                                    THEN AddItem(@) ELSE DyeingAddItem(@)]
  /\ UNCHANGED <<store, local, overlaps, issued, last>>

\* The remove button of the line item at position i.
FormRemoveItem(i) ==
  /\ AllIdle
  /\ form.page # "none"
  /\ i \in 1..Len(form.items)
  /\ form' = [form EXCEPT !.items = IF form.page = "invoice_new"
                                    THEN RemoveItem(@, i) ELSE DyeingRemoveItem(@, i)]
  /\ UNCHANGED <<store, local, overlaps, issued, last>>

\* A quantity or a rate typed into the line item at position i.
FormUpdateItem(i, field, value) ==
  /\ AllIdle
  /\ form.page # "none"
  /\ i \in 1..Len(form.items)
  /\ form' = [form EXCEPT !.items = IF form.page = "invoice_new"
                                    THEN UpdateItem(@, i, field, value)
                                    ELSE DyeingUpdateItem(@, i, field, value)]
  /\ UNCHANGED <<store, local, overlaps, issued, last>>

\* The GST Type select of InvoiceNew.
SetGstType(val) ==
  /\ AllIdle
  /\ form.page = "invoice_new"
  /\ form' = [form EXCEPT !.gstType = val]
  /\ UNCHANGED <<store, local, overlaps, issued, last>>

\* The GST Rate select of InvoiceNew.
SetGstRate(val) ==
  /\ AllIdle
  /\ form.page = "invoice_new"
  /\ form' = [form EXCEPT !.gstRate = val]
  /\ UNCHANGED <<store, local, overlaps, issued, last>>

\* The submit of the form on screen.
InvoiceFormSubmit(p, customerId, detailsFilled) ==
  /\ form.page = "invoice_new"
  /\ InvoiceHandleSubmit(p, customerId, detailsFilled, form.items, form.gstType,
                         form.gstRate, FALSE)

DyeingFormSubmit(p, customerId, detailsFilled) ==
  /\ form.page = "dyeing_new"
  /\ DyeingHandleSubmit(p, customerId, detailsFilled, form.items, FALSE)

\* ------------------------------------------------------------------- roles
\* The users that has_role(auth.uid(), 'admin') holds for.
Admins == {"s1"}

\* ---------------------------------------------------------------- settings
\* Settings.handleSubmit: the update of the company profile row.  The update
\* policy passes the row for an admin only: for another user no row matches,
\* no error comes back and the success toast is shown all the same.
SettingsSubmit(p, invoicePrefix, dyeingPrefix) ==
  /\ MayStart(p, FALSE)
  /\ invoice_prefix' = IF p \in Admins THEN invoicePrefix ELSE invoice_prefix
  /\ dyeing_prefix' = IF p \in Admins THEN dyeingPrefix ELSE dyeing_prefix
  /\ Return(p, "settings", "none", "success")
  /\ UNCHANGED <<invoices, invoice_items, dyeing_bills, dyeing_bill_items, payments,
                 total_credit, nextId, customers, issued>>

\* --------------------------------------------------------- delete a customer
\* A row of invoices, dyeing_bills or payments references the customer.
Referenced(c) ==
  \/ \E i \in 1..Len(invoices) : invoices[i].customer_id = c
  \/ \E i \in 1..Len(dyeing_bills) : dyeing_bills[i].customer_id = c
  \/ \E i \in 1..Len(payments) : payments[i].customer_id = c

\* Mutant: the foreign keys do not restrict the deletion.
HandleDeleteUnrestricted(p, c) ==
  /\ MayStart(p, FALSE)
  /\ c \in customers
  /\ IF p \notin Admins
     THEN /\ Return(p, "delete_customer", c, "success")
          /\ UNCHANGED <<store, issued>>
     ELSE /\ customers' = customers \ {c}
          /\ total_credit' = [total_credit EXCEPT ![c] = 0]
          /\ Return(p, "delete_customer", c, "success")
          /\ UNCHANGED <<invoices, invoice_items, dyeing_bills, dyeing_bill_items,
                         payments, invoice_prefix, dyeing_prefix, nextId, issued>>

\* Customers.handleDelete, confirmed: the delete of the customer row.  The
\* delete policy passes the row for an admin only (for another user no row
\* matches and no error comes back); customer_id of invoices, dyeing_bills
\* and payments is ON DELETE RESTRICT.  The balance goes with the row.
HandleDelete(p, c) ==
  /\ MayStart(p, FALSE)
  /\ c \in customers
  /\ IF p \notin Admins
     THEN /\ Return(p, "delete_customer", c, "success")
          /\ UNCHANGED <<store, issued>>
     ELSE IF Referenced(c)
     THEN /\ Return(p, "delete_customer", c, "failed")
          /\ UNCHANGED <<store, issued>>
     ELSE /\ customers' = customers \ {c}
          /\ total_credit' = [total_credit EXCEPT ![c] = 0]
          /\ Return(p, "delete_customer", c, "success")
          /\ UNCHANGED <<invoices, invoice_items, dyeing_bills, dyeing_bill_items,
                         payments, invoice_prefix, dyeing_prefix, nextId, issued>>

\* ----------------------------------------------------------- specifications
\* A handler entered (a form submitted, a deletion confirmed, the payment
\* modal opened).
Start(p, overlap) ==
  \/ \E c \in CustomerIds, f \in BOOLEAN, q \in Quantities, r \in Rates,
        g \in GstRates :
       InvoiceSubmit(p, c, f, q, r, g, overlap)
  \/ \E c \in CustomerIds, f \in BOOLEAN, q \in Quantities, r \in Rates :
       DyeingSubmit(p, c, f, q, r, overlap)
  \/ \E cls \in Classes, i \in 1..MaxDocs : DeleteConfirm(p, cls, i, overlap)
  \/ \E c \in Customers : OpenPaymentModal(p, c, overlap)

\* A running handler's next store call, or a step of the open payment form.
Step(p) ==
  /\ UNCHANGED overlaps
  /\  \/ GenerateNumber(p)
     \/ InsertDoc(p)
     \/ InsertItems(p)
     \/ ReadInvoices(p)
     \/ ReadDyeingBills(p)
     \/ WriteCredit(p)
     \/ DeleteItems(p)
     \/ DeleteDoc(p)
     \/ \E amt \in PaymentAmounts(local[p].totalOutstanding) : PaymentSubmit(p, amt)
     \/ ClosePaymentModal(p)
     \/ InsertPayment(p)
     \/ ReadCustomerCredit(p)
     \/ WritePaymentCredit(p)

\* Operations one after another: no handler starts while another runs.
Next ==
  /\ UNCHANGED <<gstVars, created_by>>
  /\ \E p \in Sessions : Start(p, FALSE) \/ Step(p)
Spec == Init /\ [][Next]_vars

\* Operations of two sessions overlapping, interleaved at their store calls.
\* The company profile holds the shipped prefixes there.
InitOverlap ==
  /\ Init
  /\ invoice_prefix = DefaultInvoicePrefix
  /\ dyeing_prefix = DefaultDyeingPrefix
NextOverlap ==
  /\ UNCHANGED <<gstVars, created_by>>
  /\ \E p \in Sessions : Start(p, TRUE) \/ Step(p)
SpecOverlap == InitOverlap /\ [][NextOverlap]_vars

\* The steps of a creation, and those of a deletion.
StepCreate(p) ==
  /\ UNCHANGED overlaps
  /\  \/ GenerateNumber(p)
     \/ InsertDoc(p)
     \/ InsertItems(p)
     \/ ReadInvoices(p)
     \/ ReadDyeingBills(p)
     \/ WriteCredit(p)

StepDelete(p) ==
  /\ UNCHANGED overlaps
  /\  \/ DeleteItems(p)
     \/ DeleteDoc(p)

\* The document sequencer: one user who creates and deletes documents for one
\* customer and saves prefixes in Settings, from the shipped company profile.
SeqUser == "s1"
SeqCustomer == "c1"
NextSeq ==
  /\ UNCHANGED <<gstVars, created_by>>
  /\  \/ \E pi \in InvoicePrefixes, pd \in DyeingPrefixes :
          SettingsSubmit(SeqUser, pi, pd)
      \/ \E q \in Quantities, r \in Rates, g \in GstRates :
          InvoiceSubmit(SeqUser, SeqCustomer, TRUE, q, r, g, FALSE)
      \/ \E q \in Quantities, r \in Rates :
          DyeingSubmit(SeqUser, SeqCustomer, TRUE, q, r, FALSE)
      \/ \E cls \in Classes, i \in 1..MaxDocs : DeleteConfirm(SeqUser, cls, i, FALSE)
      \/ StepCreate(SeqUser)
      \/ StepDelete(SeqUser)
SpecSeq == InitOverlap /\ [][NextSeq]_vars

\* The document forms: one user who edits and submits the forms of
\* InvoiceNew and DyeingNew.
NextForm ==
  /\ UNCHANGED <<gstVars, created_by>>
  /\  \/ \E page \in {"invoice_new", "dyeing_new"} : OpenForm(page)
      \/ FormAddItem
      \/ \E i \in 1..MaxItems : FormRemoveItem(i)
      \/ \E i \in 1..MaxItems :
           \/ \E v \in FormQuantities : FormUpdateItem(i, "quantity", v)
           \/ \E v \in FormRates : FormUpdateItem(i, "rate", v)
      \/ \E t \in GstTypes : SetGstType(t)
      \/ \E r \in GstRateOptions : SetGstRate(r)
      \/ \E c \in {SeqCustomer, ""}, f \in BOOLEAN : InvoiceFormSubmit(SeqUser, c, f)
      \/ \E c \in {SeqCustomer, ""}, f \in BOOLEAN : DyeingFormSubmit(SeqUser, c, f)
      \/ StepCreate(SeqUser)
SpecForm == InitOverlap /\ [][NextForm]_vars

\* The customers: the operations one after another, customer deletions among
\* them.
NextCust ==
  /\ UNCHANGED <<gstVars, created_by>>
  /\ \E p \in Sessions :
       \/ Start(p, FALSE)
       \/ Step(p)
       \/ \E c \in Customers : HandleDelete(p, c)
SpecCust == InitOverlap /\ [][NextCust]_vars


\* ------------------------------------------------------------------ ledger
\* What a customer owes by the documents now in the store:
\* sum of total_amount - paid_amount over the customer's invoices and bills.
RECURSIVE OwedOn(_, _)
OwedOn(docs, c) ==
  IF Len(docs) = 0 THEN 0
  ELSE (IF docs[1].customer_id = c
        THEN docs[1].total_amount - docs[1].paid_amount ELSE 0)
       + OwedOn(Tail(docs), c)
Outstanding(c) == OwedOn(invoices, c) + OwedOn(dyeing_bills, c)

\* The sum of the payments recorded for a customer.
RECURSIVE PaidBy(_, _)
PaidBy(pays, c) ==
  IF Len(pays) = 0 THEN 0
  ELSE (IF pays[1].customer_id = c THEN pays[1].amount ELSE 0) + PaidBy(Tail(pays), c)

RecomputeOps ==
  {"create_invoice", "create_dyeing_bill", "delete_invoice", "delete_dyeing_bill"}

\* The last handler to return was a creation or deletion that succeeded, and
\* no handler is running.
RecomputeCompleted ==
  AllIdle /\ last.op \in RecomputeOps /\ last.outcome = "success"

PaymentCompleted == AllIdle /\ last.op = "payment" /\ last.outcome = "success"

\* Session p's payment handler makes its last step, the balance update.
PaymentWriteStep(p) == local[p].pc = "pay_write" /\ local'[p].pc = "idle"

\* Session p's payment form is submitted and rejected.
PaymentRejectStep(p) ==
  /\ local[p].pc = "pay_form"
  /\ local'[p] = local[p]
  /\ last' # last
  /\ last'.outcome \in {"invalid_amount", "overpayment"}

\* Session p's payment form is submitted and accepted.
PaymentAcceptStep(p) == local[p].pc = "pay_form" /\ local'[p].pc = "pay_insert"

\* C1: after completed, non-overlapping creations and deletions of invoices
\* and dyeing bills, the stored balance of the customer the last one touched
\* equals the sum of total_amount - paid_amount over that customer's
\* invoices and dyeing bills.
C1_BalanceIsAggregate ==
  RecomputeCompleted => total_credit[last.cust] = Outstanding(last.cust)

C1_Witness ==
  /\ RecomputeCompleted
  /\ last.op = "delete_invoice"
  /\ Len(dyeing_bills) > 0
  /\ total_credit[last.cust] > 0

C3_PaymentStaysInLedger ==
  RecomputeCompleted =>
    total_credit[last.cust] = Outstanding(last.cust) - PaidBy(payments, last.cust)

\* C4: no operation clamps the balance: a payment stores the balance it read
\* less the amount, also when that is negative.
C4_NoClamp ==
  [][\A p \in Sessions :
       PaymentWriteStep(p) =>
         total_credit'[local[p].cust] = local[p].credit - local[p].amount]_vars

\* C5: with no concurrent operation, a payment of exactly the outstanding
\* balance is accepted and leaves the stored balance at 0, and a payment of
\* more than the outstanding balance is rejected as an overpayment.
C5_OverpaymentBoundary ==
  [][\A p \in Sessions :
       /\ PaymentRejectStep(p) =>
            /\ last'.amount # total_credit[local[p].cust]
            /\ (last'.amount > total_credit[local[p].cust]
                  => last'.outcome = "overpayment")
       /\ PaymentAcceptStep(p) =>
            local'[p].amount <= total_credit[local[p].cust]
       /\ (PaymentWriteStep(p)
             /\ local[p].amount = total_credit[local[p].cust]) =>
            total_credit'[local[p].cust] = 0]_vars

C5_Witness ==
  /\ last.outcome = "overpayment"
  /\ \E i \in 1..Len(payments) :
       /\ payments[i].amount > 50
       /\ total_credit[payments[i].customer_id] = 0
       /\ payments[i].customer_id # last.cust

C7_JointOverpaymentSurfaces ==
  \A c \in Customers :
    (/\ AllIdle
     /\ nextId = 2
     /\ Len(invoices) + Len(dyeing_bills) = 1
     /\ PaidBy(payments, c) > Outstanding(c)) => total_credit[c] < 0

\* C8: creation or deletion of a document and the recomputation after it are
\* atomic towards concurrent creations and deletions: once the handlers have
\* returned, every customer's stored balance is the aggregate over the
\* documents present.  Stated where no payment was ever recorded.
C8_AtomicCreateDelete ==
  (AllIdle /\ Len(payments) = 0) =>
    \A c \in Customers : total_credit[c] = Outstanding(c)

\* C9: N documents of one class issued one after another with no deletion
\* carry prefix-00001 .. prefix-N, in that order.
NumberOf(prefix, n) == prefix \o <<"-">> \o PadStart(NatToString(n), PadWidth)
C9_GaplessSequence ==
  \A cls \in Classes :
    Len(Docs(cls)) = Len(issued[cls]) =>
      \A i \in 1..Len(issued[cls]) : issued[cls][i] = NumberOf(Prefix(cls), i)

\* C10: within one class no number is issued twice, and each number issued
\* is greater than every number issued before, deletions included.
SuffixValue(number) == ParseInt(LastNumberPart(number))
C10_NeverReused ==
  \A cls \in Classes :
    \A i, j \in 1..Len(issued[cls]) :
      i < j =>
        /\ issued[cls][i] # issued[cls][j]
        /\ (~SuffixValue(issued[cls][i]).nan /\ ~SuffixValue(issued[cls][j]).nan)
             => SuffixValue(issued[cls][i]).val < SuffixValue(issued[cls][j]).val

\* ---------------------------------------------------------------- sequencer
\* C11: for every interleaving of concurrent creations of documents of one
\* class, two creations that read the same most recent number included, no
\* two persisted documents of that class carry the same number.
C11_UniqueNumbers ==
  \A cls \in Classes :
    \A i, j \in 1..Len(Docs(cls)) :
      i < j => Docs(cls)[i].number # Docs(cls)[j].number

\* Two overlapping creations generated the same number; one is persisted, the
\* other was refused by the insert.
C11_Witness ==
  /\ AllIdle
  /\ last.op = "create_invoice"
  /\ last.outcome = "failed"
  /\ Len(invoices) = 1
  /\ issued["invoice"] = <<FirstNumber(invoice_prefix)>>

\* prefix, "-", and exactly PadWidth decimal digits
WellFormed(prefix, number) ==
  /\ Len(number) = Len(prefix) + 1 + PadWidth
  /\ SubSeq(number, 1, Len(prefix)) = prefix
  /\ number[Len(prefix) + 1] = "-"
  /\ \A i \in (Len(prefix) + 2)..Len(number) : IsDigit(number[i])

\* The number of the most recent document of the class is not
\* prefix-NNNNN under the configured prefix, and what the sequencer reads as
\* its numeric suffix is not a number.
LastNumberCorrupt(cls) ==
  /\ Len(Docs(cls)) > 0
  /\ ~WellFormed(Prefix(cls), Docs(cls)[Len(Docs(cls))].number)
  /\ SuffixValue(Docs(cls)[Len(Docs(cls))].number).nan

\* C12: when the number of the most recent document of a class does not
\* parse as prefix-NNNNN, the creation attempt fails with an error: the
\* sequencer returns no number and no document is persisted.
C12_CorruptSequenceFails ==
  [][\A p \in Sessions :
       LET cls == ClassOf(local[p].op) IN
       /\ (local[p].pc = "gen_number" /\ local'[p].pc # "gen_number"
             /\ LastNumberCorrupt(cls)) =>
            (local'[p].pc = "idle" /\ last'.outcome = "failed")
       /\ (local[p].pc = "insert_doc" /\ LastNumberCorrupt(cls)) =>
            Docs(cls)' = Docs(cls)]_vars

\* C13: every number the sequencer returns has the form prefix, "-", five
\* decimal digits, and it is prefix-00001 when no document of the class
\* exists.
C13_NumberFormat ==
  [][\A p \in Sessions :
       LET cls == ClassOf(local[p].op) IN
       (local[p].pc = "gen_number" /\ local'[p].pc = "insert_doc") =>
         /\ WellFormed(Prefix(cls), local'[p].number)
         /\ Len(Docs(cls)) = 0 => local'[p].number = NumberOf(Prefix(cls), 1)]_vars

OtherClass(cls) == IF cls = "invoice" THEN "dyeing_bill" ELSE "invoice"

\* C14: invoices and dyeing bills have independent sequences: the number a
\* creation of one class receives is the next number by the rows and the
\* prefix of that class alone, and a step that creates or deletes a document
\* of the other class leaves that next number unchanged.
C14_IndependentSequences ==
  [][\A cls \in Classes :
       /\ \A p \in Sessions :
            (local[p].pc = "gen_number" /\ local'[p].pc = "insert_doc"
               /\ ClassOf(local[p].op) = cls) =>
              local'[p].number = NextNumber(Prefix(cls), Docs(cls))
       /\ Docs(OtherClass(cls))' # Docs(OtherClass(cls)) =>
            NextNumber(Prefix(cls)', Docs(cls)') = NextNumber(Prefix(cls), Docs(cls))]_vars

\* A dyeing bill receives the first number of its sequence while an invoice
\* exists.
C14_Witness ==
  /\ local[SeqUser].pc = "insert_doc"
  /\ local[SeqUser].op = "create_dyeing_bill"
  /\ Len(invoices) > 0
  /\ local[SeqUser].number = FirstNumber(dyeing_prefix)

\* --------------------------------------------------------------- tax fields
\* The session runs the handler of InvoiceNew and holds its payload.
HoldsInvoicePayload(p) == local[p].op = "create_invoice" /\ local[p].pc # "idle"

\* The GST rate (percent) a payload was computed with.
RateOf(tax) ==
  IF tax.gst_type = "CGST_SGST" THEN (tax.cgst_rate.val * 2) \div 100
  ELSE tax.igst_rate.val \div 100

\* The breakdown of the payload's subtotal and rate in the given mode.
BreakdownIn(gstType, l) ==
  TaxFields(gstType, RateOf(l.tax), GstAmount200(l.lines, RateOf(l.tax)))

\* C15: for every subtotal >= 0 and every rate offered, the intrastate
\* breakdown has cgst equal to sgst, and cgst + sgst equals the igst of the
\* interstate breakdown of the same subtotal and rate; the payload carries
\* the breakdown of its mode.
C15_SameTaxInBothModes ==
  \A p \in Sessions :
    HoldsInvoicePayload(p) =>
      LET intra == BreakdownIn("CGST_SGST", local[p])
          inter == BreakdownIn("IGST", local[p])
      IN /\ local[p].subtotal >= 0
         /\ RateOf(local[p].tax) \in 0..100
         /\ local[p].tax = BreakdownIn(local[p].tax.gst_type, local[p])
         /\ intra.cgst_amount = intra.sgst_amount
         /\ intra.cgst_amount.val + intra.sgst_amount.val = inter.igst_amount.val

\* An intrastate payload at 5% on a subtotal of 1.06: halves of 0.0265.
C15_Witness ==
  \E p \in Sessions :
    /\ HoldsInvoicePayload(p)
    /\ local[p].tax.gst_type = "CGST_SGST"
    /\ RateOf(local[p].tax) = 5
    /\ local[p].subtotal = 106
    /\ local[p].tax.cgst_amount.val = 530

\* The columns of one mode hold values / are NULL.
IntraSet(r) ==
  ~r.cgst_rate.null /\ ~r.cgst_amount.null /\ ~r.sgst_rate.null /\ ~r.sgst_amount.null
IntraEmpty(r) ==
  r.cgst_rate.null /\ r.cgst_amount.null /\ r.sgst_rate.null /\ r.sgst_amount.null
InterSet(r) == ~r.igst_rate.null /\ ~r.igst_amount.null
InterEmpty(r) == r.igst_rate.null /\ r.igst_amount.null

\* C16: every persisted invoice populates the tax fields of exactly one
\* mode: with gst_type CGST_SGST the cgst and sgst rates and amounts are set
\* and the igst rate and amount are empty, with gst_type IGST the igst fields
\* are set and the cgst and sgst fields are empty.
C16_OneTaxMode ==
  \A i \in 1..Len(invoices) :
    /\ invoices[i].gst_type \in GstTypes
    /\ invoices[i].gst_type = "CGST_SGST" =>
         IntraSet(invoices[i]) /\ InterEmpty(invoices[i])
    /\ invoices[i].gst_type = "IGST" =>
         InterSet(invoices[i]) /\ IntraEmpty(invoices[i])

\* An intrastate and an interstate invoice are persisted.
C16_Witness ==
  /\ \E i \in 1..Len(invoices) :
       invoices[i].gst_type = "CGST_SGST" /\ invoices[i].cgst_amount.val > 0
  /\ \E i \in 1..Len(invoices) :
       invoices[i].gst_type = "IGST" /\ invoices[i].igst_amount.val > 0

\* The tax amount of a persisted invoice: cgst_amount + sgst_amount in
\* intrastate mode, igst_amount in interstate mode.
TaxAmount(r) ==
  IF r.gst_type = "CGST_SGST" THEN r.cgst_amount.val + r.sgst_amount.val
  ELSE r.igst_amount.val

\* C17: every persisted invoice has total_amount = subtotal + tax amount and
\* paid_amount 0, and its subtotal is the sum of its line amounts.
C17_TotalIsSubtotalPlusTax ==
  /\ \A i \in 1..Len(invoices) :
       /\ invoices[i].total_amount = invoices[i].subtotal + TaxAmount(invoices[i])
       /\ invoices[i].paid_amount = 0
  /\ \A it \in invoice_items :
       \A i \in 1..Len(invoices) :
         invoices[i].id = it.doc => invoices[i].subtotal = SumSeq(it.amounts)

\* ------------------------------------------------------------- dyeing form
\* C18: after any sequence of addItem, removeItem and updateItem steps on the
\* dyeing-bill form every line item has amount = quantity x rate, and the
\* bill submitted has total_amount equal to the sum of its line amounts.
C18_DyeingLineAmounts ==
  /\ form.page = "dyeing_new" =>
       \A i \in 1..Len(form.items) :
         form.items[i].amount = form.items[i].quantity * form.items[i].rate
  /\ \A p \in Sessions :
       (local[p].op = "create_dyeing_bill" /\ local[p].pc # "idle") =>
         /\ local[p].total = SumSeq(local[p].lines)
         /\ form.page = "dyeing_new" /\ local[p].lines = Amounts(form.items)

\* A dyeing bill of two line items of 1.06 each is submitted.
C18_Witness ==
  \E p \in Sessions :
    /\ local[p].op = "create_dyeing_bill"
    /\ local[p].pc = "insert_doc"
    /\ local[p].lines = <<106, 106>>
    /\ local[p].total = 212

\* ------------------------------------------------------------ recomputation
\* What the recomputation of handler op computes for customer c from the
\* rows the store holds after the step.
RecomputedAfter(op, c) ==
  CreditToWrite(op, RowsOf(invoices', c), RowsOf(dyeing_bills', c))

\* C19: the recomputation is idempotent: run again right after it has
\* written, with no write to the customer's invoices or dyeing bills in
\* between, it computes the value it has just written, whichever of the four
\* handlers runs it, so the stored balance stays the same.
C19_RecomputeIdempotent ==
  [][\A p \in Sessions :
       (local[p].pc = "write_credit" /\ local'[p].pc = "idle") =>
         \A op \in RecomputeOps :
           RecomputedAfter(op, local[p].cust) = total_credit'[local[p].cust]]_vars

\* A recomputation has replaced a balance that a payment had lowered.
C19_Witness ==
  /\ RecomputeCompleted
  /\ PaidBy(payments, last.cust) > 0
  /\ Len(invoices) + Len(dyeing_bills) = 2
  /\ total_credit[last.cust] = Outstanding(last.cust)
  /\ total_credit[last.cust] > 0

GstinPrefixes ==
  {<<Digits[i], Digits[j]>> : i \in 1..10, j \in 1..10} \cup {<<"A", "7">>}
GstinTails ==
  { <<"A", "A", "A", "A", "A", "0", "0", "0", "0", "A", "1", "Z", "5">>,
    <<"a", "a", "a", "a", "a", "0", "0", "0", "0", "a", "1", "z", "5">>,
    <<"A", "B", "C", "P", "E", "1", "2", "3", "4", "F", "Z", "Z", "Z">>,
    <<"A", "A", "A", "A", "A", "0", "0", "0", "0", "A", "0", "Z", "5">>,
    <<"A", "A", "A", "A", "A", "0", "0", "0", "0", "A", "1", "Y", "5">>,
    <<"A", "A", "A", "A", " ", "0", "0", "0", "0", "A", "1", "Z", "5">>,
    <<"A", "A", "A", "A", "A", "0", "0", "0", "0", "A", "1", "Z">>,
    <<"A", "A", "A", "A", "A", "0", "0", "0", "0", "A", "1", "Z", "5", "5">>,
    <<"a", "a", "a", SharpS, "0", "0", "0", "0", "a", "1", "z", "5">>,
    <<>> }
GstinPadding == {<<>>, <<" ">>}
GstinInputs ==
  {<<>>, <<" ">>} \cup
  {l \o p \o t \o r : l \in GstinPadding, p \in GstinPrefixes, t \in GstinTails,
                      r \in GstinPadding}

\* The decoder is handed a GSTIN: validateGSTNumber is called on it.
Validate ==
  /\ ~decoder.validated
  /\ decoder' = [decoder EXCEPT !.validated = TRUE,
                                !.validation = validateGSTNumber(decoder.gstin)]
  /\ UNCHANGED <<store, form, local, overlaps, issued, last, customerForm,
                 inflight, created_by>>

\* The same GSTIN is posted to verify-gst.
Invoke ==
  /\ ~decoder.served
  /\ decoder' = [decoder EXCEPT !.served = TRUE, !.response = serve(decoder.gstin)]
  /\ UNCHANGED <<store, form, local, overlaps, issued, last, customerForm,
                 inflight, created_by>>

\* The decoder and the edge function, on every GSTIN of GstinInputs.
InitDecode ==
  /\ InitLedger
  /\ invoice_prefix = DefaultInvoicePrefix
  /\ dyeing_prefix = DefaultDyeingPrefix
  /\ decoder \in {[NoDecoder EXCEPT !.gstin = g] : g \in GstinInputs}
  /\ customerForm = ClosedCustomerForm
  /\ inflight = {}
NextDecode == Validate \/ Invoke
SpecDecode == InitDecode /\ [][NextDecode]_vars

\* ------------------------------------------------------------ GSTIN decoder
\* The text the decoder examines: upper-cased and trimmed.
Normalized(gstin) == Trim(ToUpperCase(gstin))

\* 2 digits, 5 letters, 4 digits, 1 letter, 1 alphanumeric in 1-9 or A-Z, the
\* letter Z, 1 alphanumeric.
Letters == {UpperCaseLetters[i] : i \in 1..26}
NonZeroDigits == {Digits[i] : i \in 2..10}
AllDigits == {Digits[i] : i \in 1..10}
StructuralPattern(t) ==
  /\ Len(t) = 15
  /\ {t[1], t[2]} \subseteq AllDigits
  /\ {t[i] : i \in 3..7} \subseteq Letters
  /\ {t[i] : i \in 8..11} \subseteq AllDigits
  /\ t[12] \in Letters
  /\ t[13] \in NonZeroDigits \cup Letters
  /\ t[14] = "Z"
  /\ t[15] \in AllDigits \cup Letters

KnownStates == {r.code : r \in STATE_CODES}

LengthError == "GST number must be exactly 15 characters"
FormatError == "Invalid GST number format"
UnknownStateError == "Invalid state code in GST number"
RequiredError == "GST number is required"

\* What the three checks, made in their order, give for a text.
DecodedByChecks(t, v) ==
  IF Len(t) # 15 THEN ~v.isValid /\ v.error = LengthError
  ELSE IF ~StructuralPattern(t) THEN ~v.isValid /\ v.error = FormatError
  ELSE IF SubSeq(t, 1, 2) \notin KnownStates
  THEN ~v.isValid /\ v.error = UnknownStateError
  ELSE /\ v.isValid
       /\ v.stateCode = SubSeq(t, 1, 2)
       /\ [code |-> SubSeq(t, 1, 2), name |-> v.stateName] \in STATE_CODES
       /\ v.pan = SubSeq(t, 3, 12)
       /\ v.entityCode = SubSeq(t, 13, 13)

Gstin27 == <<"2", "7", "A", "A", "A", "A", "A", "0", "0", "0", "0", "A", "1", "Z", "5">>
Gstin99 == <<"9", "9", "A", "A", "A", "A", "A", "0", "0", "0", "0", "A", "1", "Z", "5">>

MaxVerifyCalls == 2
MaxMounts == 2

\* The texts typed or pasted into the GSTIN input (maxLength 15): nothing, a
\* GSTIN of Maharashtra in lower case, one of Karnataka, one of no state, one
\* with a malformed entity character, the first characters of one.
GstinTail == <<"A", "A", "A", "A", "A", "0", "0", "0", "0", "A", "1", "Z", "5">>
TypedGstins ==
  { <<>>,
    <<"2", "7">> \o <<"a", "a", "a", "a", "a", "0", "0", "0", "0", "a", "1", "z", "5">>,
    <<"2", "9">> \o GstinTail,
    <<"9", "9">> \o GstinTail,
    <<"2", "7", "A", "A", "A", "A", "A", "0", "0", "0", "0", "A", "0", "Z", "5">>,
    <<"2", "7", "-", "A", "A">> }

\* The texts typed into the state input.
TypedStates == {"", "Goa"}

\* Mutant: the detected state is taken whatever the field holds.
handleStateDetectedAlways(closureState, actualState, state) == state

\* Customers.handleStateDetected: the test reads formData.state of the
\* render the handler was made in (closureState), the update is applied to
\* the formData of the moment (whose state is actualState).
handleStateDetected(closureState, actualState, state) ==
  IF closureState = "" THEN state ELSE actualState

\* The record of one onStateDetected call: the state field as it was and as
\* the call left it.
DetectedEvent(closureState, actualState, state) ==
  [was |-> actualState, now |-> handleStateDetected(closureState, actualState, state)]

\* GSTInput's effect on [value, onStateDetected], run after a render of
\* Customers while the dialog is open (the handler is a new function at
\* every render).  The state it sets makes another render, whose effect
\* finds the field filled and changes nothing.
Effect(cf) ==
  IF ~cf.open THEN cf
  ELSE IF Len(cf.gstin) > 0
  THEN LET result == validateGSTNumber(cf.gstin) IN
       IF result.isValid /\ result.stateName # ""
       THEN [cf EXCEPT !.input.validation = result,
                       !.state = handleStateDetected(cf.state, cf.state,
                                                     result.stateName),
                       !.detected = Append(cf.detected,
                                           DetectedEvent(cf.state, cf.state,
                                                         result.stateName))]
       ELSE [cf EXCEPT !.input.validation = result]
  ELSE [cf EXCEPT !.input.validation = NoValidation, !.input.verified = FALSE,
                  !.input.verificationError = ""]

\* What an event handler starts from: no onStateDetected call made yet.
Fresh(cf) == [cf EXCEPT !.detected = <<>>]

LedgerUnchanged ==
  UNCHANGED <<store, form, local, overlaps, issued, last, decoder, created_by>>

\* The Add Customer button: the dialog opens on formData as it is, with a
\* new GSTInput.
OpenDialog ==
  /\ ~customerForm.open
  /\ customerForm.mounts < MaxMounts
  /\ customerForm' = Effect([Fresh(customerForm) EXCEPT
                               !.open = TRUE, !.mounts = @ + 1,
                               !.input = MountedInput])
  /\ UNCHANGED inflight
  /\ LedgerUnchanged

\* The dialog closes: by Cancel, which keeps formData, or by onOpenChange
\* (the close button, Escape), which calls resetForm.  Its GSTInput is gone.
CloseDialog(reset) ==
  /\ customerForm.open
  /\ customerForm' = [Fresh(customerForm) EXCEPT
                        !.open = FALSE,
                        !.gstin = IF reset THEN <<>> ELSE @,
                        !.state = IF reset THEN "" ELSE @,
                        !.input = MountedInput]
  /\ UNCHANGED inflight
  /\ LedgerUnchanged

\* The input is disabled while a verification runs.
InputDisabled(cf) == cf.input.isVerifying

\* GSTInput.handleChange with the text of the input, and
\* Customers.handleGSTChange that it calls.
HandleChange(text) ==
  /\ customerForm.open
  /\ ~InputDisabled(customerForm)
  /\ LET formatted == formatGSTNumber(text) IN
     customerForm' = Effect([Fresh(customerForm) EXCEPT
                               !.input.validation = validateGSTNumber(formatted),
                               !.input.verified = FALSE,
                               !.input.verificationError = "",
                               !.gstin = formatted])
  /\ UNCHANGED inflight
  /\ LedgerUnchanged

\* The onChange of the state input.
StateChange(text) ==
  /\ customerForm.open
  /\ customerForm' = Effect([Fresh(customerForm) EXCEPT !.state = text])
  /\ UNCHANGED inflight
  /\ LedgerUnchanged

\* Mutant: the verification is not flagged as running.
BeginVerifyUnflagged(input) ==
  [input EXCEPT !.verificationError = "", !.verified = FALSE]

\* verifyGST: setIsVerifying(true), setVerificationError(null),
\* setVerifiedData(null).
BeginVerify(input) ==
  [input EXCEPT !.isVerifying = TRUE, !.verificationError = "", !.verified = FALSE]

\* verifyGST(gstin) up to the call of the edge function: the dialog after
\* it and the call it starts, if any.  The call keeps the handlers of the
\* render it was started in, and with them that render's formData.state.
verifyGST(cf, gstin) ==
  IF gstin = cf.input.lastVerifiedGst \/ cf.input.isVerifying
  THEN [form |-> cf, call |-> {}]
  ELSE IF ~validateGSTNumber(gstin).isValid
  THEN [form |-> [cf EXCEPT !.input.verificationError = "Invalid GST format"],
        call |-> {}]
  ELSE [form |-> [cf EXCEPT !.calls = @ + 1, !.input = BeginVerify(cf.input)],
        call |-> {[id |-> cf.calls + 1, mount |-> cf.mounts, gstin |-> gstin,
                   body |-> Trim(ToUpperCase(gstin)), closureState |-> cf.state]}]

\* An event handler that may call verifyGST has run on the dialog cf.
Verifying(cf) ==
  /\ customerForm' = verifyGST(cf, cf.gstin).form
  /\ inflight' = inflight \cup verifyGST(cf, cf.gstin).call
  /\ verifyGST(cf, cf.gstin).call # {} => customerForm.calls < MaxVerifyCalls

\* GSTInput.handleBlur (autoVerify is left at its default, true).
HandleBlur ==
  /\ customerForm.open
  /\ ~InputDisabled(customerForm)
  /\ LedgerUnchanged
  /\ LET cf == [Fresh(customerForm) EXCEPT !.input.isTouched = TRUE] IN
     IF /\ Len(cf.gstin) = 15
        /\ cf.input.validation.isValid
        /\ cf.gstin # cf.input.lastVerifiedGst
     THEN Verifying(cf)
     ELSE /\ customerForm' = cf
          /\ UNCHANGED inflight

\* The verify button is disabled while a verification runs, on a GSTIN that
\* is not valid and on the one verified last.
ButtonDisabled(cf) ==
  \/ cf.input.isVerifying
  \/ ~cf.input.validation.isValid
  \/ cf.gstin = cf.input.lastVerifiedGst

\* GSTInput.handleVerifyClick
HandleVerifyClick ==
  /\ customerForm.open
  /\ ~ButtonDisabled(customerForm)
  /\ LedgerUnchanged
  /\ LET cf == Fresh(customerForm) IN
     IF Len(cf.gstin) > 0 /\ cf.input.validation.isValid
     THEN Verifying(cf)
     ELSE /\ customerForm' = cf
          /\ UNCHANGED inflight

\* The GSTInput that started the call is still the one on screen.
Mounted(cf, call) == cf.open /\ cf.mounts = call.mount

\* verifyGST after the call of the edge function returned.  answered: the
\* function was reached and its answer is that of serve; otherwise invoke
\* gives an error.  A status other than 2xx is an error of invoke as well.
\* The state updates of a GSTInput that is gone are dropped; the handlers
\* the call holds are called all the same.
VerifyReturns(call, answered) ==
  /\ call \in inflight
  /\ inflight' = inflight \ {call}
  /\ LedgerUnchanged
  /\ LET cf == Fresh(customerForm)
         data == serve(call.body)
         settled == IF Mounted(cf, call)
                    THEN [cf EXCEPT !.input.isVerifying = FALSE] ELSE cf IN
     IF answered /\ data.status = 200 /\ data.success
     THEN LET shown == IF Mounted(cf, call)
                       THEN [settled EXCEPT !.input.verified = TRUE,
                                            !.input.lastVerifiedGst = call.gstin]
                       ELSE settled IN
          IF data.state # ""
          THEN LET set == [shown EXCEPT
                             !.state = handleStateDetected(call.closureState,
                                                           cf.state, data.state),
                             !.detected = Append(cf.detected,
                                            DetectedEvent(call.closureState,
                                                          cf.state, data.state))] IN
               customerForm' = IF set.state # cf.state THEN Effect(set) ELSE set
          ELSE customerForm' = shown
     ELSE customerForm' = IF Mounted(cf, call)
                          THEN [settled EXCEPT
                                  !.input.verificationError = "Verification failed"]
                          ELSE settled

\* The GST input of the customer dialog, opened once: change, blur and
\* verify-click events, edits of the state field, answers of verify-gst.
GstEvent ==
  \/ \E text \in TypedGstins : HandleChange(text)
  \/ \E text \in TypedStates : StateChange(text)
  \/ HandleBlur
  \/ HandleVerifyClick
  \/ \E call \in inflight, answered \in BOOLEAN : VerifyReturns(call, answered)
NextGst ==
  \/ customerForm.mounts = 0 /\ OpenDialog
  \/ GstEvent
SpecGst == InitOverlap /\ [][NextGst]_vars

\* The customer dialog, opened, closed and opened again.
NextCustomerForm ==
  \/ OpenDialog
  \/ \E reset \in BOOLEAN : CloseDialog(reset)
  \/ GstEvent
SpecCustomerForm == InitOverlap /\ [][NextCustomerForm]_vars

\* ------------------------------------------------------------ state auto-fill
\* C22: on the customer form, whatever the GSTIN edits, the edits of the
\* state field and the verification results were, every state-detected
\* event leaves a state field that is not empty as it is: it changes the
\* field only when the field is empty.
C22_AutoFillKeepsEnteredState ==
  \A i \in 1..Len(customerForm.detected) :
    LET e == customerForm.detected[i] IN
      /\ e.was # "" => e.now = e.was
      /\ e.now # e.was => e.was = ""

\* A verification result of another state arrived while the field held the
\* state the user typed.
C22_Witness ==
  /\ customerForm.input.verified
  /\ customerForm.state = "Goa"
  /\ \E i \in 1..Len(customerForm.detected) :
       customerForm.detected[i].was = "Goa" /\ customerForm.detected[i].now = "Goa"


\* ------------------------------------------------- C30: verification calls
\* C30: over the change, blur and verify-click events of a GST input, at
\* most one verify-gst call is in flight at any time, no call is started
\* for the GSTIN verified last, none for a GSTIN that fails the local
\* checks, and a verification that succeeds records its GSTIN as the one
\* verified last.
C30_NoDuplicateVerification ==
  /\ [](Cardinality(inflight) <= 1)
  /\ [][\A call \in inflight' \ inflight :
          /\ inflight = {}
          /\ call.gstin # customerForm.input.lastVerifiedGst
          /\ StructuralPattern(Normalized(call.gstin))
          /\ SubSeq(Normalized(call.gstin), 1, 2) \in KnownStates]_vars
  /\ [][\A call \in inflight \ inflight' :
          ~customerForm.input.verified /\ customerForm'.input.verified
            => customerForm'.input.lastVerifiedGst = call.gstin]_vars

\* A second call is in flight, for a GSTIN other than the one verified
\* before it.
C30_Witness ==
  /\ \E call \in inflight : call.id = 2 /\ call.gstin # customerForm.input.lastVerifiedGst
  /\ customerForm.input.lastVerifiedGst # <<>>
  /\ customerForm.input.isVerifying


\* -------------------------------------- C29: the decoder and verify-gst
\* C29: on every string the edge function answers 400 exactly when
\* validateGSTNumber gives isValid = false, with the same error message in
\* the length, format and state-code cases, and on every accepted string
\* both give the same state code, state name and PAN.
C29_DecoderAndEdgeFunctionAgree ==
  decoder.validated /\ decoder.served =>
    LET v == decoder.validation
        r == decoder.response
        Cases == {LengthError, FormatError, UnknownStateError} IN
    /\ r.status \in {200, 400}
    /\ r.status = 400 <=> ~v.isValid
    /\ ~v.isValid /\ v.error \in Cases => r.error = v.error
    /\ r.status = 400 /\ r.error \in Cases => v.error = r.error
    /\ v.isValid => /\ r.success
                    /\ r.stateCode = v.stateCode
                    /\ r.state = v.stateName
                    /\ r.pan = v.pan

\* Both have decoded a GSTIN that is valid only once trimmed and upper-cased.
C29_Witness ==
  /\ decoder.validated
  /\ decoder.served
  /\ decoder.validation.isValid
  /\ decoder.response.status = 200
  /\ Len(decoder.gstin) > 15
  /\ decoder.gstin # ToUpperCase(decoder.gstin)


\* ----------------------------------------- C23: an unparseable last number
\* `${prefix}-00NaN`: NaN through toString and padStart(5, "0").
NaNNumber(prefix) == prefix \o <<"-">> \o <<"0", "0", "N", "a", "N">>

GenerateNumberFails(p) ==
  /\ local[p].pc = "gen_number"
  /\ SetLocal(p, [local[p] EXCEPT
        !.pc = "insert_doc",
        !.number = FirstNumber(Prefix(ClassOf(local[p].op)))])
  /\ UNCHANGED <<store, form, issued, last>>

\* The insert of the header row comes back with an error: the handler throws.
InsertDocFails(p) ==
  /\ local[p].pc = "insert_doc"
  /\ Return(p, local[p].op, local[p].cust, "failed")
  /\ UNCHANGED <<store, issued>>

\* The insert of the line items comes back with an error: the handler throws
\* with the header row stored.
InsertItemsFails(p) ==
  /\ local[p].pc = "insert_items"
  /\ Return(p, local[p].op, local[p].cust, "failed")
  /\ UNCHANGED <<store, issued>>

\* The select of the customer's invoices fails: error is not read, data is
\* null and (invoices || []) is the empty list.
ReadInvoicesFails(p) ==
  /\ local[p].pc = "rd_inv"
  /\ SetLocal(p, [local[p] EXCEPT !.pc = "rd_bill", !.rdInv = <<>>])
  /\ UNCHANGED <<store, form, issued, last>>

\* The select of the customer's dyeing bills fails, likewise.
ReadDyeingBillsFails(p) ==
  /\ local[p].pc = "rd_bill"
  /\ SetLocal(p, [local[p] EXCEPT !.pc = "write_credit", !.rdBill = <<>>])
  /\ UNCHANGED <<store, form, issued, last>>

\* The update of customers.total_credit fails: the error is logged or not
\* read at all, and the success toast follows.
WriteCreditFails(p) ==
  /\ local[p].pc = "write_credit"
  /\ Return(p, local[p].op, local[p].cust, "success")
  /\ UNCHANGED <<store, issued>>

\* Mutant: the error of the line-item delete is not looked at.
DeleteItemsFailsIgnored(p) ==
  /\ local[p].pc = "del_items"
  /\ SetLocal(p, [local[p] EXCEPT !.pc = "del_doc"])
  /\ UNCHANGED <<store, form, issued, last>>

\* The delete of the line items fails: if (itemsError) throw itemsError.
DeleteItemsFails(p) ==
  /\ local[p].pc = "del_items"
  /\ Return(p, local[p].op, local[p].cust, "failed")
  /\ UNCHANGED <<store, issued>>

\* The delete of the header row fails: the handler throws, the line items
\* gone.
DeleteDocFails(p) ==
  /\ local[p].pc = "del_doc"
  /\ Return(p, local[p].op, local[p].cust, "failed")
  /\ UNCHANGED <<store, issued>>

\* PaymentModal.handleSubmit, catch and finally: the error toast, loading
\* reset, the modal left open.
PaymentFailed(p) ==
  /\ SetLocal(p, [local[p] EXCEPT !.pc = "pay_form", !.loading = FALSE,
                                  !.amount = 0, !.credit = 0])
  /\ last' = [op |-> "payment", cust |-> local[p].cust, outcome |-> "failed",
              amount |-> local[p].amount]
  /\ UNCHANGED <<form, issued>>

\* The insert of the payment record fails: if (paymentError) throw.
InsertPaymentFails(p) ==
  /\ local[p].pc = "pay_insert"
  /\ PaymentFailed(p)
  /\ UNCHANGED store

\* The select of customers.total_credit fails: error is not read, customer
\* is null and (customer?.total_credit || 0) is 0.
ReadCustomerCreditFails(p) ==
  /\ local[p].pc = "pay_read"
  /\ SetLocal(p, [local[p] EXCEPT !.pc = "pay_write", !.credit = 0])
  /\ UNCHANGED <<store, form, issued, last>>

\* The update of customers.total_credit fails: if (updateError) throw, the
\* payment record stored.  (The modal stays open; a failure is taken only
\* while another payment may still be recorded.)
WritePaymentCreditFails(p) ==
  /\ local[p].pc = "pay_write"
  /\ Len(payments) < MaxPayments
  /\ PaymentFailed(p)
  /\ UNCHANGED store

\* The store answers the call a running handler waits on, with rows or with
\* an error.
Answered(p) ==
  /\ local[p].pc \notin {"idle", "pay_form"}
  /\ UNCHANGED overlaps
  /\  \/ GenerateNumber(p)
      \/ GenerateNumberFails(p)
      \/ InsertDoc(p)
      \/ InsertDocFails(p)
      \/ InsertItems(p)
      \/ InsertItemsFails(p)
      \/ ReadInvoices(p)
      \/ ReadInvoicesFails(p)
      \/ ReadDyeingBills(p)
      \/ ReadDyeingBillsFails(p)
      \/ WriteCredit(p)
      \/ WriteCreditFails(p)
      \/ DeleteItems(p)
      \/ DeleteItemsFails(p)
      \/ DeleteDoc(p)
      \/ DeleteDocFails(p)
      \/ InsertPayment(p)
      \/ InsertPaymentFails(p)
      \/ ReadCustomerCredit(p)
      \/ ReadCustomerCreditFails(p)
      \/ WritePaymentCredit(p)
      \/ WritePaymentCreditFails(p)

\* The user acts: a form is submitted (while fewer than docs documents have
\* been inserted), a delete confirmed, the payment modal opened, submitted
\* or closed.
UserActs(p, c, docs) ==
  \/ /\ nextId <= docs
     /\ \E q \in Quantities, r \in Rates, g \in GstRates :
          InvoiceSubmit(p, c, TRUE, q, r, g, FALSE)
  \/ /\ nextId <= docs
     /\ \E q \in Quantities, r \in Rates : DyeingSubmit(p, c, TRUE, q, r, FALSE)
  \/ \E cls \in Classes, i \in 1..MaxDocs : DeleteConfirm(p, cls, i, FALSE)
  \/ OpenPaymentModal(p, c, FALSE)
  \/ /\ UNCHANGED overlaps
     /\ \/ \E amt \in PaymentAmounts(local[p].totalOutstanding) : PaymentSubmit(p, amt)
        \/ ClosePaymentModal(p)

\* One user and one customer, from the shipped company profile, with a store
\* whose calls may fail.  The store answers every call: a handler that waits
\* on a call is resumed.
StoreAnswers ==
  /\ UNCHANGED <<gstVars, created_by>>
  /\ Answered(SeqUser)
NextFail ==
  \/ /\ UNCHANGED <<gstVars, created_by>>
     /\ UserActs(SeqUser, SeqCustomer, MaxDocs)
  \/ StoreAnswers
SpecFail == InitOverlap /\ [][NextFail]_vars /\ WF_vars(StoreAnswers)

\* The same with one document at most, for the properties of termination.
MaxLiveDocs == 1
NextLive ==
  \/ /\ UNCHANGED <<gstVars, created_by>>
     /\ UserActs(SeqUser, SeqCustomer, MaxLiveDocs)
  \/ StoreAnswers
SpecLive == InitOverlap /\ [][NextLive]_vars /\ WF_vars(StoreAnswers)


\* ------------------------------------------- C24: create-and-reconcile
CreateOps == {"create_invoice", "create_dyeing_bill"}

\* The document with the id is in the table of its class.
Committed(docs, id) == \E i \in 1..Len(docs) : docs[i].id = id

\* The tables of a class after the step.
DocsAfter(cls) == IF cls = "invoice" THEN invoices' ELSE dyeing_bills'
ItemsAfter(cls) == IF cls = "invoice" THEN invoice_items' ELSE dyeing_bill_items'

\* C24: a create operation that returns after its header insert leaves no
\* document committed whose amount is missing from the customer's stored
\* balance, and reports success only with the balance reconciled: the
\* stored balance is then the aggregate of the customer's documents, never
\* one computed from the rows of a read that failed.
C24_CreateFailsAsOneUnit ==
  [][\A p \in Sessions :
       (/\ local[p].op \in CreateOps
        /\ local[p].pc \in {"insert_items", "rd_inv", "rd_bill", "write_credit"}
        /\ local'[p].pc = "idle") =>
         LET c == local[p].cust
             reconciled == total_credit'[c] =
                             OwedOn(invoices', c) + OwedOn(dyeing_bills', c) IN
         /\ last'.outcome \in {"success", "failed"}
         /\ last'.outcome = "success" => reconciled
         /\ Committed(DocsAfter(ClassOf(local[p].op)), local[p].doc) => reconciled]_vars


\* ------------------------------------------------ C25: delete a document
DeleteOps == {"delete_invoice", "delete_dyeing_bill"}

\* Line items of the document with the id are stored.
HasItems(items, id) == \E r \in items : r.doc = id

\* C25: a deletion deletes the line items, then the document, then
\* recomputes and writes the balance, in this order.  When the line-item
\* delete fails the handler ends as failed with the document stored and the
\* balance not written; when the document delete fails it ends as failed
\* with the balance not written.
C25_DeleteInOrder ==
  [][\A p \in Sessions :
       local[p].op \in DeleteOps /\ local'[p] # local[p] =>
         LET cls == ClassOf(local[p].op)
             id == local[p].doc
             pc == local[p].pc
             failed == /\ local'[p].pc = "idle"
                       /\ last'.outcome = "failed"
                       /\ last'.op = local[p].op IN
         /\ pc = "del_items" =>
              /\ Committed(Docs(cls), id)
              /\ DocsAfter(cls) = Docs(cls)
              /\ total_credit' = total_credit
              /\ \/ local'[p].pc = "del_doc" /\ ~HasItems(ItemsAfter(cls), id)
                 \/ failed /\ store' = store
         /\ pc = "del_doc" =>
              /\ ~HasItems(Items(cls), id)
              /\ total_credit' = total_credit
              /\ \/ local'[p].pc = "rd_inv" /\ ~Committed(DocsAfter(cls), id)
                 \/ failed /\ store' = store
         /\ pc \in {"rd_inv", "rd_bill"} =>
              /\ store' = store
              /\ local'[p].pc = IF pc = "rd_inv" THEN "rd_bill" ELSE "write_credit"
         /\ pc = "write_credit" =>
              /\ ~Committed(Docs(cls), id)
              /\ ~HasItems(Items(cls), id)
              /\ local'[p].pc = "idle"
              /\ last'.outcome = "success"
         /\ total_credit' # total_credit => pc = "write_credit"]_vars

\* A deletion ended at its first call: the line-item delete failed, the
\* document and its line items are stored and the balance is the one of
\* before.
C25_Witness ==
  /\ last.op = "delete_invoice"
  /\ last.outcome = "failed"
  /\ AllIdle
  /\ \E i \in 1..Len(invoices) :
       /\ HasItems(invoice_items, invoices[i].id)
       /\ total_credit[invoices[i].customer_id] = invoices[i].total_amount


\* ------------------------------------------------- C26: payment records
\* C26: no operation modifies or removes an existing payment record: the
\* records of before a step are, in their order and unchanged, the first
\* records of after it.
C26_PaymentsImmutable ==
  [][/\ Len(payments') >= Len(payments)
     /\ \A i \in 1..Len(payments) : payments'[i] = payments[i]]_vars

\* An invoice of a customer with a recorded payment has been deleted, and
\* the payment is stored.
C26_Witness ==
  /\ last.op = "delete_invoice"
  /\ last.outcome = "success"
  /\ Len(invoices) = 0
  /\ \E i \in 1..Len(payments) : payments[i].customer_id = last.cust


\* ------------------------------------------------------ who may delete
\* The insert of the header row with its column created_by: the insert
\* policy passes the row only with created_by = auth.uid(), and
\* handleSubmit sends created_by: user.id.
InsertDocBy(p) ==
  /\ InsertDoc(p)
  /\ created_by' = IF local'[p].pc = "insert_items"
                   THEN created_by @@ (nextId :> p) ELSE created_by

\* Two users who create and delete invoices of one customer, one after
\* another; created_by keeps who inserted each document.
StepAuth(p) ==
  /\ UNCHANGED overlaps
  /\  \/ InsertDocBy(p)
      \/ /\ UNCHANGED created_by
         /\  \/ GenerateNumber(p)
             \/ InsertItems(p)
             \/ ReadInvoices(p)
             \/ ReadDyeingBills(p)
             \/ WriteCredit(p)
             \/ DeleteItems(p)
             \/ DeleteDoc(p)
NextAuth ==
  /\ UNCHANGED gstVars
  /\ \E p \in Sessions :
       \/ /\ \E q \in Quantities, r \in Rates, g \in GstRates :
               InvoiceSubmit(p, SeqCustomer, TRUE, q, r, g, FALSE)
          /\ UNCHANGED created_by
       \/ /\ \E i \in 1..MaxDocs : DeleteConfirm(p, "invoice", i, FALSE)
          /\ UNCHANGED created_by
       \/ StepAuth(p)
SpecAuth == InitOverlap /\ [][NextAuth]_vars

\* C27: an invoice can be deleted only by an admin or by the user who
\* created it: the steps of a deletion requested by any other user leave
\* the invoice, its line items and the customer's balance unchanged.
C27_DeleteOnlyByAdminOrCreator ==
  [][\A p \in Sessions :
       (/\ local[p].op = "delete_invoice"
        /\ p \notin Admins
        /\ created_by[local[p].doc] # p) =>
         /\ invoices' = invoices
         /\ invoice_items' = invoice_items
         /\ total_credit' = total_credit]_vars


\* ------------------------------------------------------- C28: termination
\* A handler of the session waits on a store call.
Running(p) == local[p].pc \notin {"idle", "pay_form"}

\* The place of a store call in its handler.
CallRank(pc) ==
  CASE pc \in {"gen_number", "del_items", "pay_insert"} -> 1
    [] pc \in {"insert_doc", "del_doc", "pay_read"} -> 2
    [] pc \in {"insert_items", "pay_write"} -> 3
    [] pc = "rd_inv" -> 4
    [] pc = "rd_bill" -> 5
    [] pc = "write_credit" -> 6
    [] OTHER -> 0

\* C28: with a store that answers every call, every started creation,
\* deletion and payment comes to an end, reported as success or as failure,
\* with its in-progress flag false again; the flag is true exactly while
\* the handler runs, and a handler only moves on to a later store call: no
\* call is made a second time.
C28_OperationsTerminate ==
  /\ \A p \in Sessions :
       Running(p) ~> (/\ ~Running(p)
                      /\ ~local[p].loading
                      /\ last.outcome \in {"success", "failed"})
  /\ [](\A p \in Sessions : local[p].loading <=> Running(p))
  /\ [][\A p \in Sessions :
          Running(p) /\ local'[p] # local[p] =>
            \/ /\ local'[p].pc \in {"idle", "pay_form"}
               /\ last'.outcome \in {"success", "failed"}
            \/ CallRank(local'[p].pc) > CallRank(local[p].pc)]_vars

\* A payment has failed at a store call: the modal is open again and not
\* loading, the failure reported.
C28_Witness ==
  /\ local[SeqUser].pc = "pay_form"
  /\ ~local[SeqUser].loading
  /\ last.op = "payment"
  /\ last.outcome = "failed"
  /\ Len(payments) > 0

====
